---- MODULE Spec2Model ----
(***************************************************************************)
(* Discrete-event simulation kernel of mbrooker/simulator_example.         *)
(*                                                                         *)
(* The repository holds five copies of one event loop (sim_loop in         *)
(* nudge/nudge.py, omission/omission.py, ski_sim.py,                       *)
(* simple_collapse_sim/sim.py and retry_sim/retry_sim.py).  Each keeps its *)
(* pending events in a Python list used as a binary heap through heapq:    *)
(* heappop takes the next event, the event's callback is called, and the   *)
(* events it returns are appended with list.extend and the list is         *)
(* re-heapified.  Events are tuples (time, callback[, payload]) and the    *)
(* heap orders them with Python's tuple comparison.                        *)
(*                                                                         *)
(* Simulated time is a float in the code.  The model uses naturals: one    *)
(* unit is an arbitrary tick, and every random draw of the code            *)
(* (expovariate, random) is a choice from a small range of ticks.          *)
(***************************************************************************)
EXTENDS Naturals, Integers, Sequences, FiniteSets, TLC

\* ---------------------------------------------------------------- bounds
\* Largest delay, in ticks, a random draw adds to the current time.
MaxDelay == 1
\* Horizon max_t handed to sim_loop.
MaxT == 1
\* Largest number of initial events (simple_collapse_sim's q argument,
\* retry_sim's clients).
MaxInit == 2
\* Cap on the number of events put into q in one run, for the runs that
\* nothing else ends.
MaxEvents == 5
\* Cap on the length of q in the runs that only the horizon ends.
MaxQueue == 2
\* Longest list a callback of the kernel model returns: two events, as
\* Client.generate of nudge.py does.
MaxRet == 2

VARIABLES
    loop,      \* which sim_loop is running
    minDelay,  \* smallest delay the callbacks of this run draw
    max_t,     \* sim_loop's max_t argument
    q,         \* sim_loop's q: the Python list heapq works on (index 1 = q[0])
    t,         \* sim_loop's t: time of the event popped last
    drain,     \* retry_sim.sim_loop's local drain
    cdrain,    \* c.drain of every client handed to retry_sim.sim_loop
    pc,        \* "start", "running", "done" (loop left), "error" (exception)
    err,       \* the exception that ended the run, "" when none
    res,       \* history: what the callback called last returned
    nins,      \* history: number of events ever put into q
    dispatched, \* history: the events whose callback was called, in call order
    config,    \* retry_sim: how run_sims built the clients of this run
    clients,   \* retry_sim: the fields of every client but drain
    strat,     \* retry_sim: the retry strategy object of every client
    calls,     \* retry_sim: the Call objects created so far
    stats,     \* retry_sim: the Stats object
    collapse,  \* simple_collapse_sim: the Client, the Server and the Stats counters
    ski,       \* ski_sim: the Lift and the Skiiers
    nudge,     \* nudge: the Server and its queue of Jobs
    hist,      \* history: the values returned by the methods called so far
    omission,  \* omission: the Server, its queue and the client
    lru        \* cache_sim: the LRU cache

\* The state of the actors of retry_sim.
actors == <<clients, strat, calls, stats>>

\* The state of the actors of the other simulators.
others == <<collapse, ski, nudge, hist, omission, lru>>

vars == <<loop, minDelay, max_t, q, t, drain, cdrain, pc, err, res, nins, dispatched,
          config, clients, strat, calls, stats, collapse, ski, nudge, hist,
          omission, lru>>

\* ------------------------------------------------------------- events
\* A callback is a bound method: a function name and the object it is bound to.
Method(fn, self) == [fn |-> fn, self |-> self]

\* Payloads: None, an int, or a reference to an object.
None == [kind |-> "none", v |-> 0]
IntPayload(n) == [kind |-> "int", v |-> n]
ObjPayload(n) == [kind |-> "obj", v |-> n]

\* An event tuple (time, callback, payload).  id is not part of the tuple: it
\* numbers the events in the order they were put into q.
Event(time, h, payload, id) == [time |-> time, h |-> h, payload |-> payload, id |-> id]

NoEvent == Event(0, Method("", 0), None, 0)

\* Python's a < b on two payloads: "lt", "eq", "gt", or "err" for the
\* TypeError raised when the two values are not orderable.
PayloadCmp(a, b) ==
    IF a = b THEN "eq"
    ELSE IF a.kind = "int" /\ b.kind = "int"
         THEN (IF a.v < b.v THEN "lt" ELSE "gt")
         ELSE "err"

\* Python's a < b on two event tuples, compared element by element: the first
\* pair of elements that are not == decides.  Two bound methods that are not
\* == are not orderable (TypeError).  The result is "T", "F" or "err".
TupleLT(a, b) ==
    IF a.time # b.time THEN (IF a.time < b.time THEN "T" ELSE "F")
    ELSE IF a.h # b.h THEN "err"
    ELSE LET c == PayloadCmp(a.payload, b.payload)
         IN IF c = "err" THEN "err" ELSE IF c = "lt" THEN "T" ELSE "F"

\* ---------------------------------------------------------------- heapq
\* Result of a heapq operation: ok is FALSE when a comparison raised.
Ok(heap, item) == [ok |-> TRUE, heap |-> heap, item |-> item]
Raised == [ok |-> FALSE, heap |-> <<>>, item |-> NoEvent]

\* The one element of a singleton set.  The recursive heapq operators take
\* their arguments through singleton sets: an argument is then evaluated once,
\* as Python evaluates it, and not once for each place where it is used.
The(S) == CHOOSE x \in S : TRUE

\* heapq._siftdown(heap, startpos, pos): positions are Python's, 0-based.
RECURSIVE siftdown(_, _, _, _)
siftdown_at(heap, startpos, pos, newitem) ==
    IF pos > startpos
    THEN LET parentpos == (pos - 1) \div 2
             parent == heap[parentpos + 1]
             c == TupleLT(newitem, parent)
         IN IF c = "err" THEN Raised
            ELSE IF c = "T"
                 THEN siftdown([heap EXCEPT ![pos + 1] = parent], startpos, parentpos, newitem)
                 ELSE Ok([heap EXCEPT ![pos + 1] = newitem], NoEvent)
    ELSE Ok([heap EXCEPT ![pos + 1] = newitem], NoEvent)

siftdown(heap, startpos, pos, newitem) ==
    The({siftdown_at(h, startpos, p, n) : h \in {heap}, p \in {pos}, n \in {newitem}})

\* The loop of heapq._siftup: bubble the smaller child up until a leaf is hit,
\* then sift newitem down from there.
RECURSIVE siftup_loop(_, _, _, _)
siftup_loop_at(heap, startpos, pos, newitem) ==
    LET endpos == Len(heap)
        childpos == 2 * pos + 1
        rightpos == childpos + 1
    IN IF childpos < endpos
       THEN LET c == IF rightpos < endpos
                     THEN TupleLT(heap[childpos + 1], heap[rightpos + 1])
                     ELSE "T"
            IN IF c = "err" THEN Raised
               ELSE LET cp == IF c = "T" THEN childpos ELSE rightpos
                    IN siftup_loop([heap EXCEPT ![pos + 1] = heap[cp + 1]], startpos, cp, newitem)
       ELSE siftdown([heap EXCEPT ![pos + 1] = newitem], startpos, pos, newitem)

siftup_loop(heap, startpos, pos, newitem) ==
    The({siftup_loop_at(h, startpos, p, n) : h \in {heap}, p \in {pos}, n \in {newitem}})

\* heapq._siftup(heap, pos)
siftup(heap, pos) == siftup_loop(heap, pos, pos, heap[pos + 1])

\* heapq.heapify(x): for i in reversed(range(n // 2)): _siftup(x, i)
RECURSIVE heapify_from(_, _)
heapify_step(r, i) ==
    IF ~r.ok THEN Raised
    ELSE IF i = 0 THEN r ELSE heapify_from(r.heap, i - 1)

heapify_from(x, i) == The({heapify_step(r, i) : r \in {siftup(x, i)}})

heapify(x) ==
    IF Len(x) \div 2 = 0 THEN Ok(x, NoEvent) ELSE heapify_from(x, (Len(x) \div 2) - 1)

\* A heappop that returns heap[0] and leaves the list as it is.
heappop_peek(heap) == Ok(heap, heap[1])

\* heapq.heappop(heap): the last element is popped off the list; when the list
\* is then not empty, heap[0] is returned, the last element takes its place and
\* is sifted.  Nothing here requires the list to be a heap already.
heappop(heap) ==
    LET lastelt == heap[Len(heap)]
        rest == SubSeq(heap, 1, Len(heap) - 1)
    IN IF rest = <<>> THEN Ok(<<>>, lastelt)
       ELSE LET r == siftup([rest EXCEPT ![1] = lastelt], 0)
            IN IF r.ok THEN Ok(r.heap, rest[1]) ELSE Raised


\* ------------------------------------------------------- run parameters
\* How a run of retry_sim is set up (run_sims and its variants): the class of
\* the clients, the retry strategy their factory makes, retry_backoff.
Config(client_type, strategy, N, retry_backoff) ==
    [client_type |-> client_type, strategy |-> strategy, N |-> N,
     retry_backoff |-> retry_backoff]

\* The runs of the kernel model have no retry_sim actors.
NoConfig == Config("", "", 0, 0)

\* Stats.__init__
NoStats == [successes |-> 0, total_calls |-> 0, unique_calls |-> 0]

\* ------------------------------------------------------- the five loops
Loops == {"nudge", "omission", "ski_sim", "simple_collapse_sim", "retry_sim"}

\* The loops that stop at the horizon: while len(q) > 0 and t < max_t.
HorizonLoops == {"nudge", "omission", "ski_sim", "simple_collapse_sim"}

\* What a callback returned: None, or a list of (time, callback, payload).
NoneResult == [none |-> TRUE, evs |-> <<>>]
ListResult(evs) == [none |-> FALSE, evs |-> evs]

\* The events of a returned list as they sit in q, numbered from n + 1 on.
Stamp(evs, n) ==
    [i \in 1..Len(evs) |-> Event(evs[i].time, evs[i].h, evs[i].payload, n + i)]

\* The exception a failed heapq call or list.extend leaves sim_loop with; the
\* frame of sim_loop is unwound and its list q with it.
CompareError == "TypeError: '<' not supported"
ExtendError == "TypeError: 'NoneType' object is not iterable"

\* The end of an iteration of a horizon loop, from the list left by heappop and
\* the callback's result r:
\*     if new_events is not None:
\*         q.extend(new_events)
\*         heapq.heapify(q)
\* The result is the new list, or the exception raised.
insert_horizon(heap, r, n) ==
    IF r.none THEN [ok |-> TRUE, heap |-> heap, err |-> ""]
    ELSE LET h == heapify(heap \o Stamp(r.evs, n))
         IN IF h.ok THEN [ok |-> TRUE, heap |-> h.heap, err |-> ""]
            ELSE [ok |-> FALSE, heap |-> <<>>, err |-> CompareError]

\* The same for retry_sim.sim_loop, which has no test for None:
\*     q.extend(call(payload, t))
\*     heapq.heapify(q)
insert_retry(heap, r, n) ==
    IF r.none THEN [ok |-> FALSE, heap |-> <<>>, err |-> ExtendError]
    ELSE LET h == heapify(heap \o Stamp(r.evs, n))
         IN IF h.ok THEN [ok |-> TRUE, heap |-> h.heap, err |-> ""]
            ELSE [ok |-> FALSE, heap |-> <<>>, err |-> CompareError]

insert(L, heap, r, n) ==
    IF L = "retry_sim" THEN insert_retry(heap, r, n) ELSE insert_horizon(heap, r, n)

\* A loop condition without the horizon test.
loop_condition_no_horizon(L) == Len(q) > 0

\* A loop condition that lets the loop go on at the horizon itself.
loop_condition_past_horizon(L) ==
    IF L = "retry_sim" THEN Len(q) > 0 ELSE Len(q) > 0 /\ t <= max_t

\* The loop condition of each sim_loop.
loop_condition(L) ==
    IF L = "retry_sim" THEN Len(q) > 0 ELSE Len(q) > 0 /\ t < max_t

\* drain_after with the horizon itself counted as past it.
drain_after_at_horizon(L, tt) ==
    IF L = "retry_sim" /\ tt >= max_t /\ ~drain
    THEN /\ drain' = TRUE
         /\ cdrain' = [c \in DOMAIN cdrain |-> TRUE]
    ELSE UNCHANGED <<drain, cdrain>>

\* The statements that follow the heapify in retry_sim.sim_loop:
\*     if t > max_t and not drain: drain = True; for c in clients: c.drain = True
drain_after(L, tt) ==
    IF L = "retry_sim" /\ tt > max_t /\ ~drain
    THEN /\ drain' = TRUE
         /\ cdrain' = [c \in DOMAIN cdrain |-> TRUE]
    ELSE UNCHANGED <<drain, cdrain>>

\* heappop raised: no callback runs, the exception leaves sim_loop.
pop_raises ==
    /\ pc' = "error" /\ err' = CompareError /\ q' = <<>>
    /\ UNCHANGED <<loop, minDelay, max_t, config, t, drain, cdrain, res, nins, dispatched>>
    /\ UNCHANGED <<actors, others>>

\* One iteration of sim_loop L whose heappop returned p and whose callback
\* returned r.
iteration(L, p, r) ==
    LET ins == insert(L, p.heap, r, nins)
    IN /\ t' = p.item.time
       /\ res' = r
       /\ dispatched' = Append(dispatched, p.item)
       /\ IF ins.ok
          THEN /\ q' = ins.heap
               /\ nins' = nins + Len(r.evs)
               /\ pc' = "running" /\ err' = ""
               /\ drain_after(L, p.item.time)
          ELSE /\ q' = <<>>
               /\ pc' = "error" /\ err' = ins.err
               /\ UNCHANGED <<nins, drain, cdrain>>
       /\ UNCHANGED <<loop, minDelay, max_t, config>>

\* The loop condition is false: sim_loop returns.
loop_exit(L) ==
    /\ loop = L /\ pc = "running" /\ ~loop_condition(L)
    /\ pc' = "done"
    /\ UNCHANGED <<loop, minDelay, max_t, config, q, t, drain, cdrain, err, res, nins, dispatched>>
    /\ UNCHANGED <<actors, others>>

\* ------------------------------------------- callbacks of the kernel model
\* sim_loop knows nothing of the callbacks it calls.  In the kernel model a
\* callback is any bound method of two objects, and a call returns None or any
\* list of at most MaxRet events, each at the current time plus a drawn delay.
Callbacks == {Method("call", 1), Method("call", 2)}

Delays == minDelay..MaxDelay

ReturnedEvents(tt) ==
    {[time |-> tt + d, h |-> m, payload |-> None] : d \in Delays, m \in Callbacks}

RECURSIVE Lists(_, _)
Lists(S, n) ==
    IF n = 0 THEN {<<>>}
    ELSE LET shorter == Lists(S, n - 1)
         IN shorter \cup {Append(l, e) : l \in shorter, e \in S}

CallbackResults(tt) ==
    {NoneResult} \cup {ListResult(evs) : evs \in Lists(ReturnedEvents(tt), MaxRet)}

\* A run of a horizon loop whose callbacks always draw a positive delay ends at
\* the horizon, however long the callbacks go on returning events: there the
\* callbacks are held only to the length of q.  Every other run is followed
\* until MaxEvents events have been queued, after which the callbacks return
\* no more events.
Room(L, heap) ==
    IF L \in HorizonLoops /\ minDelay > 0
    THEN MaxQueue - Len(heap)
    ELSE MaxEvents - nins

\* One iteration of sim_loop L in the kernel model.
kernel_iteration(L) ==
    /\ loop = L /\ pc = "running" /\ loop_condition(L)
    /\ LET p == heappop(q)
       IN IF ~p.ok THEN pop_raises
          ELSE \E r \in CallbackResults(p.item.time) :
                  /\ Len(r.evs) <= Room(L, p.heap)
                  /\ iteration(L, p, r)
                  /\ UNCHANGED <<actors, others>>

\* sim_loop starts with q = [(t, client.generate)] in nudge and
\* [(t, client.generate, None)] in omission, t = 0.0.
seed_generate(L) ==
    /\ loop = L /\ pc = "start"
    /\ q' = <<Event(0, Method("call", 1), None, 1)>>
    /\ nins' = 1
    /\ pc' = "running"
    /\ UNCHANGED <<loop, minDelay, max_t, config, t, drain, cdrain, err, res, dispatched>>
    /\ UNCHANGED <<actors, others>>

\* ski_sim: q = [(0.0, stats.calc_stats, None), (random.random(), lift.dequeue_skiiers, None)]
seed_ski ==
    /\ loop = "ski_sim" /\ pc = "start"
    /\ \E r \in 0..MaxDelay :
          q' = <<Event(0, Method("call", 1), None, 1), Event(r, Method("call", 2), None, 2)>>
    /\ nins' = 2
    /\ pc' = "running"
    /\ UNCHANGED <<loop, minDelay, max_t, config, t, drain, cdrain, err, res, dispatched>>
    /\ UNCHANGED <<actors, others>>

\* simple_collapse_sim: q is an argument, any list of events; heapq.heapify(q)
\* is the first statement of sim_loop.
seed_collapse ==
    /\ loop = "simple_collapse_sim" /\ pc = "start"
    /\ \E n \in 0..MaxInit :
       \E time \in [1..n -> 0..MaxDelay] :
          LET h == heapify([i \in 1..n |-> Event(time[i], Method("call", i), None, i)])
          IN /\ nins' = n
             /\ IF h.ok THEN q' = h.heap /\ pc' = "running" /\ err' = ""
                ELSE q' = <<>> /\ pc' = "error" /\ err' = CompareError
    /\ UNCHANGED <<loop, minDelay, max_t, config, t, drain, cdrain, res, dispatched>>
    /\ UNCHANGED <<actors, others>>

\* retry_sim: q = [(net_rtt(), client.gen_load, None) for client in clients],
\* drain = False; the list is not heapified.
seed_retry ==
    /\ loop = "retry_sim" /\ pc = "start"
    /\ \E n \in 1..MaxInit :
       \E rtt \in [1..n -> 0..MaxDelay] :
          /\ q' = [c \in 1..n |-> Event(rtt[c], Method("call", c), None, c)]
          /\ nins' = n
          /\ cdrain' = [c \in 1..n |-> FALSE]
    /\ drain' = FALSE
    /\ pc' = "running"
    /\ UNCHANGED <<loop, minDelay, max_t, config, t, err, res, dispatched>>
    /\ UNCHANGED <<actors, others>>

\* nudge/nudge.py sim_loop
sim_loop_nudge ==
    \/ seed_generate("nudge")
    \/ kernel_iteration("nudge")
    \/ loop_exit("nudge")

\* omission/omission.py sim_loop
sim_loop_omission ==
    \/ seed_generate("omission")
    \/ kernel_iteration("omission")
    \/ loop_exit("omission")

\* ski_sim.py sim_loop
sim_loop_ski ==
    \/ seed_ski
    \/ kernel_iteration("ski_sim")
    \/ loop_exit("ski_sim")

\* simple_collapse_sim/sim.py sim_loop
sim_loop_collapse ==
    \/ seed_collapse
    \/ kernel_iteration("simple_collapse_sim")
    \/ loop_exit("simple_collapse_sim")

\* retry_sim/retry_sim.py sim_loop
sim_loop_retry ==
    \/ seed_retry
    \/ kernel_iteration("retry_sim")
    \/ loop_exit("retry_sim")

\* The state on entry to sim_loop: t = 0.0, nothing queued, nothing called.
InitWith(loops, d) ==
    /\ loop \in loops
    /\ minDelay = d
    /\ max_t = MaxT

\* The value of the variables of a simulator that is not the one running.
Unused == <<>>

\* The kernel model has no retry_sim actors.
InitKernel(loops, d) ==
    /\ InitWith(loops, d)
    /\ q = <<>>
    /\ t = 0
    /\ drain = FALSE
    /\ cdrain = <<>>
    /\ pc = "start"
    /\ err = ""
    /\ res = ListResult(<<>>)
    /\ nins = 0
    /\ dispatched = <<>>
    /\ config = NoConfig
    /\ clients = <<>>
    /\ strat = <<>>
    /\ calls = <<>>
    /\ stats = NoStats
    /\ collapse = Unused
    /\ ski = Unused
    /\ nudge = Unused
    /\ hist = <<>>
    /\ omission = Unused
    /\ lru = Unused

Init == InitKernel(Loops, 0)

Next ==
    \/ sim_loop_nudge
    \/ sim_loop_omission
    \/ sim_loop_ski
    \/ sim_loop_collapse
    \/ sim_loop_retry

Spec == Init /\ [][Next]_vars

\* The runs of the horizon loops whose callbacks return only events later than
\* the one dispatched.  sim_loop is a plain sequential loop: while it has an
\* iteration to make it makes it.
InitHorizon == InitKernel(HorizonLoops, 1)

NextHorizon ==
    \/ sim_loop_nudge
    \/ sim_loop_omission
    \/ sim_loop_ski
    \/ sim_loop_collapse

SpecHorizon == InitHorizon /\ [][NextHorizon]_vars /\ WF_vars(NextHorizon)


\* ------------------------------------------------- a callback that raises
\* A callback may raise instead of returning: the asserts of nudge's Server
\* (assert self.busy, assert not self.busy) raise AssertionError.
HandlerError == "AssertionError"

\* A sim_loop that catches what the callback raised and goes on with the list
\* heappop left.
swallow(heap) == [pc |-> "running", q |-> heap]

\* No sim_loop has a try statement around call(...): the exception leaves
\* sim_loop, whose frame, with q, is unwound.
propagate(heap) == [pc |-> "error", q |-> <<>>]

\* One iteration of sim_loop L whose callback raises.
handler_raises(L) ==
    /\ loop = L /\ pc = "running" /\ loop_condition(L)
    /\ LET p == heappop(q)
       IN /\ p.ok
          /\ t' = p.item.time
          /\ dispatched' = Append(dispatched, p.item)
          /\ pc' = propagate(p.heap).pc
          /\ q' = propagate(p.heap).q
          /\ err' = HandlerError
    /\ UNCHANGED <<loop, minDelay, max_t, config, drain, cdrain, res, nins>>
    /\ UNCHANGED <<actors, others>>

\* The runs of nudge's and retry_sim's sim_loop in which callbacks may raise.
InitFail == InitKernel({"nudge", "retry_sim"}, 0)

NextFail ==
    \/ sim_loop_nudge
    \/ sim_loop_retry
    \/ handler_raises("nudge")
    \/ handler_raises("retry_sim")

SpecFail == InitFail /\ [][NextFail]_vars

\* ------------------------------------------------------------ retry_sim
\* The actors of retry_sim: clients (client.py), their Calls, the Server and
\* the Stats of retry_sim.py, the retry strategies of retry_strategy.py.
\* The callbacks below are functions of the actors' state a and of the draws
\* they make; each gives the set of its possible outcomes, an outcome being the
\* list of events returned and the actors' state left behind.
\* Token-bucket quantities are counted in tenths (0.1 is 1, 1.0 is 10).

\* AdaptiveRetryFactory(0.1, 5): bucket_fill_rate and bucket_size, in tenths.
BucketFillRate == 1
BucketSize == 50
\* CircuitBreakerRetryFactory(NRetriesFactory(3), 0.1): max_rate is 1 in MaxRateDen.
MaxRateDen == 10
\* NRetriesFactory(3); "no_retries" is NRetriesFactory(0).
ThreeRetries == 3
\* SerialClientWithBackoff.base_backoff = 1.0 / rate_rps, in ticks.
BaseBackoff == 1
\* Cap on the number of Calls that are started in one run.
MaxCalls == 2
\* Cap on the number of requests the Server fails in one run.
MaxFailures == 2
\* Cap on the clock of retry_sim: no event is scheduled later than this.
MaxClock == 3

ClientTypes == {"Client", "SerialClient", "SerialClientWithBackoff"}

\* run_sims: ("no_retries", NRetriesFactory(0)), ("three_retries",
\* NRetriesFactory(3)), ("adaptive_10pct", AdaptiveRetryFactory(0.1, 5)),
\* ("breaker_10pct", CircuitBreakerRetryFactory(NRetriesFactory(3), 0.1));
\* retry_backoff is 0.0 or 0.1 (here 0 or 1 tick).
Configs ==
    {Config(ct, "NRetries", n, b) : ct \in ClientTypes, n \in {0, ThreeRetries}, b \in 0..1}
    \cup {Config(ct, st, ThreeRetries, b) :
              ct \in ClientTypes, st \in {"Adaptive", "CircuitBreaker"}, b \in 0..1}

Actors == [clients |-> clients, strat |-> strat, calls |-> calls, stats |-> stats]

Outcome(evs, a) == [evs |-> evs, a |-> a]

Ev(time, h, payload) == [time |-> time, h |-> h, payload |-> payload]

Max(x, y) == IF x >= y THEN x ELSE y
Min(x, y) == IF x <= y THEN x ELSE y

\* The client object: last_call_start (SerialClient), current_backoff
\* (SerialClientWithBackoff).
NewClient == [last_call_start |-> 0, current_backoff |-> BaseBackoff]

\* The strategy object factory.make() gives a client: the bucket of an
\* AdaptiveRetryStrategy, calls and failures of a CircuitBreakerRetryStrategy.
NewStrategy == [bucket |-> BucketSize, calls |-> 0, failures |-> 0]

\* Call.__init__: retry_strategy.new_call() gives an NRetriesStrategy with
\* n_tries = 0 (alone, or inside a CircuitBreakerRetryCall), or the client's
\* own AdaptiveRetryStrategy.  state and failed are history: where the call
\* stands ("scheduled", "started", "success", "failure") and how many of its
\* requests the server failed.
NewCall(c) ==
    [client |-> c, n_tries |-> 0, base_backoff |-> config.retry_backoff,
     state |-> "scheduled", failed |-> 0]

\* retry_strategy.start()
strategy_start(a, k) ==
    LET c == a.calls[k].client
    IN CASE config.strategy = "NRetries" -> a
         [] config.strategy = "Adaptive" ->
                [a EXCEPT !.strat[c].bucket = Min(@ + BucketFillRate, BucketSize)]
         [] config.strategy = "CircuitBreaker" ->
                [a EXCEPT !.strat[c].calls = @ + 1]

\* NRetriesStrategy.should_retry returning self.n_tries < self.N
NRetries_should_retry_strict(a, k) ==
    [ret |-> a.calls[k].n_tries + 1 < config.N,
     a |-> [a EXCEPT !.calls[k].n_tries = @ + 1]]

\* NRetriesStrategy.should_retry on the strategy of call k
NRetries_should_retry(a, k) ==
    [ret |-> a.calls[k].n_tries + 1 <= config.N,
     a |-> [a EXCEPT !.calls[k].n_tries = @ + 1]]

\* AdaptiveRetryStrategy.should_retry: if self.bucket > 1.0
Adaptive_should_retry(a, k) ==
    LET c == a.calls[k].client
    IN IF a.strat[c].bucket > 10
       THEN [ret |-> TRUE, a |-> [a EXCEPT !.strat[c].bucket = @ - 10]]
       ELSE [ret |-> FALSE, a |-> a]

\* CircuitBreakerRetryCall.should_retry without the test of the failure rate
CircuitBreaker_always_asks_inner(a, k) ==
    NRetries_should_retry([a EXCEPT !.strat[a.calls[k].client].failures = @ + 1], k)

\* CircuitBreakerRetryCall.should_retry: failures / calls > max_rate
CircuitBreaker_should_retry(a, k) ==
    LET c == a.calls[k].client
        a1 == [a EXCEPT !.strat[c].failures = @ + 1]
    IN IF a1.strat[c].failures * MaxRateDen > a1.strat[c].calls
       THEN [ret |-> FALSE, a |-> a1]
       ELSE NRetries_should_retry(a1, k)

should_retry(a, k) ==
    CASE config.strategy = "NRetries" -> NRetries_should_retry(a, k)
      [] config.strategy = "Adaptive" -> Adaptive_should_retry(a, k)
      [] config.strategy = "CircuitBreaker" -> CircuitBreaker_should_retry(a, k)

\* The Call made by gen_load is the next one; none is made past MaxCalls.
NextCall(a) == Len(a.calls) + 1

\* Client.gen_load.  (The Call of a draining client is made and dropped.)
Client_gen_load(a, c, tt) ==
    IF cdrain[c] THEN {Outcome(<<>>, a)}
    ELSE {Outcome(<<Ev(tt + d, Method("gen_load", c), None),
                    Ev(tt, Method("start", NextCall(a)), None)>>,
                  [a EXCEPT !.calls = Append(@, NewCall(c))]) :
              d \in {d \in Delays : NextCall(a) <= MaxCalls}}

\* SerialClient.gen_load that also schedules itself again, as Client.gen_load
\* does.
SerialClient_gen_load_again(a, c, tt) ==
    IF cdrain[c] THEN {Outcome(<<>>, a)}
    ELSE {LET next_t_delay == Max(0, d - tt + a.clients[c].last_call_start)
              next_t == tt + next_t_delay
          IN Outcome(<<Ev(next_t + 1, Method("gen_load", c), None),
                       Ev(next_t, Method("start", NextCall(a)), None)>>,
                     [a EXCEPT !.calls = Append(@, NewCall(c)),
                               !.clients[c].last_call_start = next_t]) :
              d \in {d \in Delays : NextCall(a) <= MaxCalls}}

\* SerialClient.gen_load
SerialClient_gen_load(a, c, tt) ==
    IF cdrain[c] THEN {Outcome(<<>>, a)}
    ELSE {LET next_t_delay == Max(0, d - tt + a.clients[c].last_call_start)
              next_t == tt + next_t_delay
          IN Outcome(<<Ev(next_t, Method("start", NextCall(a)), None)>>,
                     [a EXCEPT !.calls = Append(@, NewCall(c)),
                               !.clients[c].last_call_start = next_t]) :
              d \in {d \in Delays : NextCall(a) <= MaxCalls}}

\* SerialClientWithBackoff.gen_load
SerialClientWithBackoff_gen_load(a, c, tt) ==
    IF cdrain[c] THEN {Outcome(<<>>, a)}
    ELSE {Outcome(<<Ev(tt + d, Method("start", NextCall(a)), None)>>,
                  [a EXCEPT !.calls = Append(@, NewCall(c))]) :
              d \in {d \in Delays : NextCall(a) <= MaxCalls}}

gen_load(a, c, tt) ==
    CASE config.client_type = "Client" -> Client_gen_load(a, c, tt)
      [] config.client_type = "SerialClient" -> SerialClient_gen_load(a, c, tt)
      [] config.client_type = "SerialClientWithBackoff" ->
             SerialClientWithBackoff_gen_load(a, c, tt)

\* done_success of the three client classes
client_done_success(a, c, tt) ==
    CASE config.client_type = "Client" -> {Outcome(<<>>, a)}
      [] config.client_type = "SerialClient" -> SerialClient_gen_load(a, c, tt)
      [] config.client_type = "SerialClientWithBackoff" ->
             SerialClientWithBackoff_gen_load(
                 [a EXCEPT !.clients[c].current_backoff = BaseBackoff], c, tt)

\* done_failure of the three client classes
client_done_failure(a, c, tt) ==
    CASE config.client_type = "Client" -> {Outcome(<<>>, a)}
      [] config.client_type = "SerialClient" -> SerialClient_gen_load(a, c, tt)
      [] config.client_type = "SerialClientWithBackoff" ->
             {Outcome(<<Ev(tt + a.clients[c].current_backoff, Method("gen_load", c), None)>>,
                      [a EXCEPT !.clients[c].current_backoff = @ * 2])}

\* Stats.first_try that counts the request and not the call.
first_try_not_unique(st) == [st EXCEPT !.total_calls = @ + 1]

\* Stats.first_try, Stats.retry, Stats.success
first_try(st) == [st EXCEPT !.unique_calls = @ + 1, !.total_calls = @ + 1]
retry(st) == [st EXCEPT !.total_calls = @ + 1]
success(st) == [st EXCEPT !.successes = @ + 1]

\* Call.start
Call_start(a, k, tt) ==
    LET a1 == strategy_start(a, k)
        a2 == [a1 EXCEPT !.stats = first_try(@), !.calls[k].state = "started"]
    IN {Outcome(<<Ev(tt + d, Method("handle", 0), ObjPayload(k))>>, a2) : d \in Delays}

\* The requests the server has failed so far.
RECURSIVE SumFailed(_, _)
SumFailed(cs, n) == IF n = 0 THEN 0 ELSE cs[n].failed + SumFailed(cs, n - 1)

\* Server.handle: the draw random.random() decides between done_success and
\* done_failure; whatever failure_rate is, both can come out.
Server_handle(a, k, tt) ==
    {Outcome(<<Ev(tt + d, Method("done_success", k), None)>>, a) : d \in Delays}
    \cup {Outcome(<<Ev(tt + d, Method("done_failure", k), None)>>,
                  [a EXCEPT !.calls[k].failed = @ + 1]) :
              d \in {d \in Delays : SumFailed(a.calls, Len(a.calls)) < MaxFailures}}

\* Call.done_success
Call_done_success(a, k, tt) ==
    client_done_success(
        [a EXCEPT !.stats = success(@), !.calls[k].state = "success"],
        a.calls[k].client, tt)

\* Call.done_failure
Call_done_failure(a, k, tt) ==
    LET sr == should_retry(a, k)
    IN IF sr.ret
       THEN {Outcome(<<Ev(tt + d + sr.a.calls[k].base_backoff, Method("handle", 0), ObjPayload(k))>>,
                     [sr.a EXCEPT !.stats = retry(@), !.calls[k].base_backoff = @ * 2]) :
                 d \in Delays}
       ELSE client_done_failure([sr.a EXCEPT !.calls[k].state = "failure"],
                                a.calls[k].client, tt)

\* call(payload, t) for the event e popped by retry_sim.sim_loop
Dispatch(e) ==
    CASE e.h.fn = "gen_load" -> gen_load(Actors, e.h.self, e.time)
      [] e.h.fn = "start" -> Call_start(Actors, e.h.self, e.time)
      [] e.h.fn = "handle" -> Server_handle(Actors, e.payload.v, e.time)
      [] e.h.fn = "done_success" -> Call_done_success(Actors, e.h.self, e.time)
      [] e.h.fn = "done_failure" -> Call_done_failure(Actors, e.h.self, e.time)

\* The draws are such that the events returned are within MaxClock.
InTime(evs) == \A i \in DOMAIN evs : evs[i].time <= MaxClock

\* One iteration of retry_sim.sim_loop that pops an event whose callback is fn.
retry_iteration(fn) ==
    /\ pc = "running" /\ loop_condition("retry_sim")
    /\ LET p == heappop(q)
       IN IF ~p.ok THEN pop_raises
          ELSE /\ p.item.h.fn = fn
               /\ \E o \in {o \in Dispatch(p.item) : InTime(o.evs)} :
                     /\ iteration("retry_sim", p, ListResult(o.evs))
                     /\ clients' = o.a.clients
                     /\ strat' = o.a.strat
                     /\ calls' = o.a.calls
                     /\ stats' = o.a.stats
                     /\ UNCHANGED others

\* run_sims builds the clients; sim_loop starts with
\* q = [(net_rtt(), client.gen_load, None) for client in clients], not heapified.
seed_clients ==
    /\ loop = "retry_sim" /\ pc = "start"
    /\ \E n \in 1..MaxInit :
       \E rtt \in [1..n -> Delays] :
          /\ q' = [c \in 1..n |-> Event(rtt[c], Method("gen_load", c), None, c)]
          /\ nins' = n
          /\ cdrain' = [c \in 1..n |-> FALSE]
          /\ clients' = [c \in 1..n |-> NewClient]
          /\ strat' = [c \in 1..n |-> NewStrategy]
    /\ drain' = FALSE
    /\ pc' = "running"
    /\ UNCHANGED <<loop, minDelay, max_t, config, t, err, res, dispatched, calls, stats>>
    /\ UNCHANGED others

dispatch_gen_load ==
    /\ loop = "retry_sim"
    /\ retry_iteration("gen_load")

dispatch_start ==
    /\ loop = "retry_sim"
    /\ retry_iteration("start")

dispatch_handle ==
    /\ loop = "retry_sim"
    /\ retry_iteration("handle")

dispatch_done_success ==
    /\ loop = "retry_sim"
    /\ retry_iteration("done_success")

dispatch_done_failure ==
    /\ loop = "retry_sim"
    /\ retry_iteration("done_failure")


InitRetry ==
    /\ InitWith({"retry_sim"}, 0)
    /\ config \in Configs
    /\ q = <<>>
    /\ t = 0
    /\ drain = FALSE
    /\ cdrain = <<>>
    /\ pc = "start"
    /\ err = ""
    /\ res = ListResult(<<>>)
    /\ nins = 0
    /\ dispatched = <<>>
    /\ clients = <<>>
    /\ strat = <<>>
    /\ calls = <<>>
    /\ stats = NoStats
    /\ collapse = Unused
    /\ ski = Unused
    /\ nudge = Unused
    /\ hist = <<>>
    /\ omission = Unused
    /\ lru = Unused

NextRetry ==
    \/ seed_clients
    \/ dispatch_gen_load
    \/ dispatch_start
    \/ dispatch_handle
    \/ dispatch_done_success
    \/ dispatch_done_failure
    \/ loop_exit("retry_sim")

SpecRetry == InitRetry /\ [][NextRetry]_vars

\* ------------------------------------------------------------ properties
Last(s) == s[Len(s)]

\* The events of q that were in it before the callback called last returned.
WasPending(e) == e.id <= nins - Len(res.evs)

Terminated == pc \in {"done", "error"}

\* C1: every pop, the first one included, removes an event whose time is the
\* minimum among the events pending at that moment: the event dispatched last
\* is not later than any event that was pending with it.
PopsMinimum ==
    (pc = "running" /\ dispatched # <<>>) =>
        \A i \in DOMAIN q : WasPending(q[i]) => Last(dispatched).time <= q[i].time

\* C2: the times handed to the callbacks never decrease from one call to the
\* next.
DispatchTimesNonDecreasing ==
    \A i \in 1..(Len(dispatched) - 1) : dispatched[i].time <= dispatched[i + 1].time

\* C3: in the horizon loops no callback is ever called with a time greater
\* than or equal to max_t.
NoDispatchAtHorizon ==
    loop \in HorizonLoops => \A i \in DOMAIN dispatched : dispatched[i].time < max_t

\* C4: a callback that returns None is treated as one that returns an empty
\* list: the loop goes on, list.extend does not raise.
NoneTreatedAsEmpty ==
    res.none => err # ExtendError

TiesInInsertionOrder ==
    /\ err # CompareError
    /\ dispatched # <<>> =>
          \A i \in DOMAIN q :
              ~(q[i].time = Last(dispatched).time /\ q[i].id < Last(dispatched).id)

\* C8: a horizon loop whose callbacks return only events later than the one
\* dispatched ends: only the last event dispatched can be at or after max_t,
\* and the loop is eventually left, whatever the callbacks reschedule.
HorizonTermination ==
    /\ [](\A i \in 1..(Len(dispatched) - 1) : dispatched[i].time < max_t)
    /\ <>Terminated

\* C8 witness: the loop returned at the horizon with rescheduled events still
\* queued, after the dispatch of several events.
ReturnedAtHorizon ==
    /\ pc = "done" /\ Len(q) > 0 /\ minDelay > 0
    /\ Len(dispatched) >= 3
    /\ Last(dispatched).time >= max_t

\* Some event dispatched in a completed iteration was past the horizon.  (The
\* iteration in which heapify raises is not completed.)
PastHorizonDispatched(n) == \E i \in 1..n : dispatched[i].time > max_t

\* The step dispatches a gen_load event.
GenLoadDispatched ==
    /\ Len(dispatched') = Len(dispatched) + 1
    /\ Last(dispatched').h.fn = "gen_load"

\* C9: in retry_sim.sim_loop drain mode is entered exactly once, right after the
\* first dispatched event whose time exceeds max_t: drain is set only when such
\* an event was dispatched and is set as soon as the iteration that dispatched
\* it is over; the clients' drain flags are all equal to the loop's flag at
\* every moment (none set before, all set together); no step clears the flag;
\* and a gen_load event dispatched on a draining client returns no events.
DrainEnteredOnce ==
    /\ [](drain => PastHorizonDispatched(Len(dispatched)))
    /\ [](PastHorizonDispatched(Len(dispatched) - 1) => drain)
    /\ [](pc \in {"running", "done"} /\ PastHorizonDispatched(Len(dispatched)) => drain)
    /\ [](\A c \in DOMAIN cdrain : cdrain[c] = drain)
    /\ [][drain => drain' /\ cdrain' = cdrain]_vars
    /\ [][GenLoadDispatched /\ cdrain[Last(dispatched').h.self]
              => res'.evs = <<>> /\ nins' = nins /\ calls' = calls]_vars

\* C9 witness: the loop is draining and has just dispatched a gen_load event on a
\* draining client, which returned nothing.
GenLoadWhileDraining ==
    /\ pc = "running" /\ drain
    /\ Len(dispatched) >= 2
    /\ PastHorizonDispatched(Len(dispatched) - 1)
    /\ Last(dispatched).h.fn = "gen_load"
    /\ cdrain[Last(dispatched).h.self]
    /\ res.evs = <<>>

\* The Calls whose start event was dispatched have all reached a final outcome.
StartedCallsFinal ==
    \A k \in DOMAIN calls : calls[k].state # "scheduled" => calls[k].state \in {"success", "failure"}

\* C10: retry_sim.sim_loop always terminates, and when it has, every Call whose
\* start event was dispatched has reached a final outcome.  Stated here for the
\* part that fails: whenever the loop is over, the started Calls are final.
InFlightWorkCompletes == Terminated => StartedCallsFinal

\* The part of C10 that the code does keep: a loop that ran its queue empty
\* leaves no Call scheduled or in flight.
EmptiedQueueCompletes ==
    pc = "done" => \A k \in DOMAIN calls : calls[k].state \in {"success", "failure"}

\* C11: the kernel performs no recovery.  Once a callback has raised, the run
\* is over with that exception as its outcome (it reaches the caller of
\* sim_loop), and no later step dispatches an event, the failed one included.
NoRecovery ==
    /\ [](err = HandlerError => pc = "error")
    /\ [][err = HandlerError => UNCHANGED vars]_vars
    /\ [][err' = HandlerError /\ err # HandlerError
              => Len(dispatched') = Len(dispatched) + 1 /\ q' = <<>>]_vars

\* C11 witness: a callback raised after an earlier dispatch, while events put
\* into q were still waiting; they were never dispatched.
RaisedWithEventsPending ==
    /\ pc = "error" /\ err = HandlerError
    /\ Len(dispatched) >= 2
    /\ nins > Len(dispatched)

\* ------------------------------------------------------ simple_collapse_sim
\* One Client of simple_collapse_sim/sim.py, the Server and the Stats counters,
\* run by sim_loop.  Times are in ticks of half a second.

\* max_request_t = 3.0
MaxRequestT == 6
\* base_server_time = 1.0
BaseServerTime == 2
\* Client.__init__: self.retries_left = 3
InitialRetriesLeft == 3
\* ClientWithBackoffAndJitter.__init__: self.backoff_time = 10.0
InitialBackoffTime == 20
\* Largest number of ticks self.concurrency * server_concurrency_slope adds to
\* the server's time; the requests of all the other clients count in it.
MaxLoad == 6
\* max_t of the runs of one client: beyond the timeout of a fourth request.
CollapseMaxT == 4 * (MaxRequestT + MaxDelay) + 1

CollapseClientTypes == {"Client", "ClientWithBackoffAndJitter"}

\* StatData(start_t, server, run_name) with its counters at 0
StatData(start_t) ==
    [start_t |-> start_t, starts |-> 0, successes |-> 0, retries |-> 0, timeouts |-> 0]

\* Client.__init__, Server.__init__ and Stats.__init__; sent is history, the
\* number of requests sent to the server.
NewCollapse(ct) ==
    [client_type |-> ct,
     client |-> [retries_left |-> InitialRetriesLeft, current_try |-> 0,
                 backoff_time |-> InitialBackoffTime],
     data |-> StatData(0),
     history |-> <<>>,
     server |-> [concurrency |-> 0],
     sent |-> 0]

\* What a callback leaves: its return value and the state of the objects.
Result(r, c) == [r |-> r, c |-> c]

\* Client.send_req(t, extra_delay): the lists it can return, one for each draw
\* of netdelay.
send_req(c, tt, extra_delay) ==
    {<<Ev(tt + MaxRequestT + extra_delay, Method("timeout", 1), IntPayload(c.client.current_try)),
       Ev(tt + d + extra_delay, Method("server_start", 0), IntPayload(c.client.current_try))>> :
         d \in Delays}

\* Client.send_new_req(t)
send_new_req(c, tt) ==
    LET c1 == [c EXCEPT !.data.starts = @ + 1, !.sent = @ + 1]
    IN {Result(ListResult(evs), c1) : evs \in send_req(c1, tt, 0)}

\* retry_wait(): 0 for Client; ClientWithBackoffAndJitter doubles backoff_time
\* and returns random.random() * self.backoff_time.
retry_wait(c) ==
    IF c.client_type = "Client" THEN {Result(0, c)}
    ELSE {Result(w, [c EXCEPT !.client.backoff_time = @ * 2]) : w \in Delays}

\* Client.timeout without the test of the attempt number.
Client_timeout_any(c, tt, data) ==
    LET c1 == [c EXCEPT !.data.timeouts = @ + 1,
                        !.client.retries_left = @ - 1,
                        !.client.current_try = @ + 1]
    IN IF c1.client.retries_left > 0
       THEN UNION {{Result(ListResult(evs), [w.c EXCEPT !.sent = @ + 1]) :
                        evs \in send_req(w.c, tt, w.r)} :
                   w \in retry_wait([c1 EXCEPT !.data.retries = @ + 1])}
       ELSE {Result(NoneResult, c1)}

\* Client.timeout(t, data)
Client_timeout(c, tt, data) ==
    IF data.v = c.client.current_try
    THEN LET c1 == [c EXCEPT !.data.timeouts = @ + 1,
                             !.client.retries_left = @ - 1,
                             !.client.current_try = @ + 1]
         IN IF c1.client.retries_left > 0
            THEN UNION {{Result(ListResult(evs), [w.c EXCEPT !.sent = @ + 1]) :
                             evs \in send_req(w.c, tt, w.r)} :
                        w \in retry_wait([c1 EXCEPT !.data.retries = @ + 1])}
            ELSE {Result(NoneResult, c1)}
    ELSE {Result(NoneResult, c)}

\* Client.done without the test of the attempt number.
Client_done_any(c, tt, data) ==
    {Result(NoneResult, [c EXCEPT !.data.successes = @ + 1,
                                  !.client.current_try = @ + 1])}

\* Client.done(t, data)
Client_done(c, tt, data) ==
    IF data.v = c.client.current_try
    THEN {Result(NoneResult, [c EXCEPT !.data.successes = @ + 1,
                                       !.client.current_try = @ + 1])}
    ELSE {Result(NoneResult, c)}

\* Server.start(t, data)
Server_start(c, tt, data) ==
    LET c1 == [c EXCEPT !.server.concurrency = @ + 1]
    IN {Result(ListResult(<<Ev(tt + BaseServerTime + l, Method("server_end", 0), data)>>), c1) :
            l \in 0..MaxLoad}

\* Server.end that leaves concurrency as it is.
Server_end_keeps_concurrency(c, tt, data) ==
    {Result(ListResult(<<Ev(tt + d, Method("done", 1), data)>>), c) : d \in Delays}

\* Server.end(t, data)
Server_end(c, tt, data) ==
    LET c1 == [c EXCEPT !.server.concurrency = @ - 1]
    IN {Result(ListResult(<<Ev(tt + d, Method("done", 1), data)>>), c1) : d \in Delays}

\* Stats.print_stats: return [(t + 1.0, self.print_stats, None)]
PrintEvery == 2

\* Stats.print_stats that takes its snapshot and schedules nothing.
print_stats_last(c, tt) ==
    {Result(NoneResult, [c EXCEPT !.history = Append(@, c.data), !.data = StatData(tt)])}

\* Stats.print_stats(t, _data)
print_stats(c, tt) ==
    {Result(ListResult(<<Ev(tt + PrintEvery, Method("print_stats", 0), None)>>),
            [c EXCEPT !.history = Append(@, c.data), !.data = StatData(tt)])}

\* call(t, payload) for the event e popped by simple_collapse_sim's sim_loop
CollapseDispatch(e) ==
    CASE e.h.fn = "timeout" -> Client_timeout(collapse, e.time, e.payload)
      [] e.h.fn = "done" -> Client_done(collapse, e.time, e.payload)
      [] e.h.fn = "server_start" -> Server_start(collapse, e.time, e.payload)
      [] e.h.fn = "server_end" -> Server_end(collapse, e.time, e.payload)
      [] e.h.fn = "print_stats" -> print_stats(collapse, e.time)

\* One iteration of sim_loop that pops an event whose callback is fn.
collapse_iteration(fn) ==
    /\ pc = "running" /\ loop_condition("simple_collapse_sim")
    /\ LET p == heappop(q)
       IN IF ~p.ok THEN pop_raises
          ELSE /\ p.item.h.fn = fn
               /\ \E o \in CollapseDispatch(p.item) :
                     /\ iteration("simple_collapse_sim", p, o.r)
                     /\ collapse' = o.c
                     /\ UNCHANGED <<actors, ski, nudge, hist, omission, lru>>

\* gen_load makes a client and returns what its send_new_req(t) returns; that
\* list, heapified, is the q this run of sim_loop starts from.
seed_request ==
    /\ loop = "simple_collapse_sim" /\ pc = "start"
    /\ \E ct \in CollapseClientTypes :
       \E o \in send_new_req(NewCollapse(ct), 0) :
          LET h == heapify(Stamp(o.r.evs, 0))
          IN /\ collapse' = o.c
             /\ nins' = Len(o.r.evs)
             /\ IF h.ok THEN q' = h.heap /\ pc' = "running" /\ err' = ""
                ELSE q' = <<>> /\ pc' = "error" /\ err' = CompareError
    /\ UNCHANGED <<loop, minDelay, max_t, config, t, drain, cdrain, res, dispatched>>
    /\ UNCHANGED <<actors, ski, nudge, hist, omission, lru>>

dispatch_timeout ==
    /\ loop = "simple_collapse_sim"
    /\ collapse_iteration("timeout")

dispatch_done ==
    /\ loop = "simple_collapse_sim"
    /\ collapse_iteration("done")

dispatch_server_start ==
    /\ loop = "simple_collapse_sim"
    /\ collapse_iteration("server_start")

dispatch_server_end ==
    /\ loop = "simple_collapse_sim"
    /\ collapse_iteration("server_end")

InitCollapse ==
    /\ loop = "simple_collapse_sim"
    /\ minDelay = 0
    /\ max_t = CollapseMaxT
    /\ q = <<>>
    /\ t = 0
    /\ drain = FALSE
    /\ cdrain = <<>>
    /\ pc = "start"
    /\ err = ""
    /\ res = ListResult(<<>>)
    /\ nins = 0
    /\ dispatched = <<>>
    /\ config = NoConfig
    /\ clients = <<>>
    /\ strat = <<>>
    /\ calls = <<>>
    /\ stats = NoStats
    /\ collapse = Unused
    /\ ski = Unused
    /\ nudge = Unused
    /\ hist = <<>>
    /\ omission = Unused
    /\ lru = Unused

NextCollapse ==
    \/ seed_request
    \/ dispatch_timeout
    \/ dispatch_done
    \/ dispatch_server_start
    \/ dispatch_server_end
    \/ loop_exit("simple_collapse_sim")

SpecCollapse == InitCollapse /\ [][NextCollapse]_vars

\* ------------------------------------------------------------------ ski_sim
\* The Lift, the Skiiers and the Stats of ski_sim.py, run by its sim_loop.
\* Times are in ticks of a quarter of a second.

\* Largest number of skiiers, largest chair_width and chair_period drawn.
MaxSkiiers == 3
MaxWidth == 2
MaxPeriod == 2
\* max_t of the ski_sim runs.
SkiMaxT == 5
\* Stats.calc_every, run_sims passes 1.0
CalcEvery == 4

\* What a callback of ski_sim leaves: it returned r, or an assert failed.
Return(r, s) == [r |-> r, c |-> s, raised |-> FALSE]
Raise(s) == [r |-> NoneResult, c |-> s, raised |-> TRUE]

\* Lift.__init__ and run_sims: n skiiers, all WAITING and all in the queue.
NewLift(w, p, n) ==
    [chair_width |-> w, chair_period |-> p,
     queue |-> [i \in 1..n |-> i],
     state |-> [i \in 1..n |-> "WAITING"],
     queue_lengths |-> <<>>, skiiers_skiing |-> <<>>]

\* Largest ride time and largest time down the slope drawn.
MaxRide == 2
MaxSkiing == 3

\* Lift.ride_time(): the samples drawn.
ride_time == 0..MaxRide

\* slope_len_m / speed: the times a skiier can take down the slope.
time_spent_skiing == 1..MaxSkiing

\* list.pop(): the last element of the list.
pop(queue) == [item |-> queue[Len(queue)], rest |-> SubSeq(queue, 1, Len(queue) - 1)]

RECURSIVE board(_, _, _, _)
\* The rest of the for loop of Lift.dequeue_skiiers, i chairs' seats to go, with
\* Skiier.board_lift(t) for each skiier popped.
board(s, events, i, tt) ==
    IF i = 0 THEN {Return(ListResult(events), s)}
    ELSE IF Len(s.queue) > 0
         THEN LET p == pop(s.queue)
              IN IF s.state[p.item] # "WAITING" THEN {Raise(s)}
                 ELSE UNION {board([s EXCEPT !.queue = p.rest, !.state[p.item] = "RIDING_LIFT"],
                                   Append(events, Ev(tt + rt, Method("leave_lift", p.item), None)),
                                   i - 1, tt) : rt \in ride_time}
         ELSE board(s, events, i - 1, tt)

\* Lift.dequeue_skiiers with a chair that takes the whole queue.
dequeue_whole_queue(s, tt) ==
    board(s, <<Ev(tt + s.chair_period, Method("dequeue_skiiers", 0), None)>>, Len(s.queue), tt)

\* Lift.dequeue_skiiers(_payload, t)
dequeue_skiiers(s, tt) ==
    board(s, <<Ev(tt + s.chair_period, Method("dequeue_skiiers", 0), None)>>, s.chair_width, tt)

\* Skiier.leave_lift(_payload, t)
leave_lift(s, k, tt) ==
    IF s.state[k] # "RIDING_LIFT" THEN {Raise(s)}
    ELSE {Return(ListResult(<<Ev(tt + d, Method("join_queue", k), None)>>),
                 [s EXCEPT !.state[k] = "SKIING"]) : d \in time_spent_skiing}

\* Skiier.join_queue appending the skiier without setting its state.
join_queue_stays_skiing(s, k, tt) ==
    IF s.state[k] # "SKIING" THEN {Raise(s)}
    ELSE {Return(NoneResult, [s EXCEPT !.queue = Append(@, k)])}

\* Skiier.join_queue(_payload, t)
join_queue(s, k, tt) ==
    IF s.state[k] # "SKIING" THEN {Raise(s)}
    ELSE {Return(NoneResult, [s EXCEPT !.state[k] = "WAITING", !.queue = Append(@, k)])}

\* Stats.calc_stats(_period, t); skiiers_skiing keeps the number skiing, the
\* code divides it by the number of skiiers.
calc_stats(s, tt) ==
    {Return(ListResult(<<Ev(tt + CalcEvery, Method("calc_stats", 0), None)>>),
            [s EXCEPT !.queue_lengths = Append(@, Len(s.queue)),
                      !.skiiers_skiing = Append(@, Cardinality({k \in DOMAIN s.state : s.state[k] = "SKIING"}))])}

\* call(payload, t) for the event e popped by ski_sim's sim_loop
SkiDispatch(e) ==
    CASE e.h.fn = "dequeue_skiiers" -> dequeue_skiiers(ski, e.time)
      [] e.h.fn = "leave_lift" -> leave_lift(ski, e.h.self, e.time)
      [] e.h.fn = "join_queue" -> join_queue(ski, e.h.self, e.time)
      [] e.h.fn = "calc_stats" -> calc_stats(ski, e.time)

\* One iteration of ski_sim's sim_loop that pops an event whose callback is fn.
ski_iteration(fn) ==
    /\ pc = "running" /\ loop_condition("ski_sim")
    /\ LET p == heappop(q)
       IN IF ~p.ok THEN pop_raises
          ELSE /\ p.item.h.fn = fn
               /\ \E o \in SkiDispatch(p.item) :
                     /\ IF o.raised
                        THEN /\ t' = p.item.time
                             /\ dispatched' = Append(dispatched, p.item)
                             /\ q' = <<>> /\ pc' = "error" /\ err' = HandlerError
                             /\ UNCHANGED <<loop, minDelay, max_t, config, drain, cdrain, res, nins>>
                        ELSE iteration("ski_sim", p, o.r)
                     /\ ski' = o.c
                     /\ UNCHANGED <<actors, collapse, nudge, hist, omission, lru>>

\* run_sims makes the lift and the skiiers; sim_loop starts from
\* q = [(0.0, stats.calc_stats, None), (random.random(), lift.dequeue_skiiers, None)]
seed_lift ==
    /\ loop = "ski_sim" /\ pc = "start"
    /\ \E w \in 1..MaxWidth, p \in 1..MaxPeriod, n \in 1..MaxSkiiers :
          ski' = NewLift(w, p, n)
    /\ \E r \in 0..MaxDelay :
          q' = Stamp(<<Ev(0, Method("calc_stats", 0), None),
                       Ev(r, Method("dequeue_skiiers", 0), None)>>, 0)
    /\ nins' = 2
    /\ pc' = "running"
    /\ UNCHANGED <<loop, minDelay, max_t, config, t, drain, cdrain, err, res, dispatched>>
    /\ UNCHANGED <<actors, collapse, nudge, hist, omission, lru>>

dispatch_dequeue_skiiers ==
    /\ loop = "ski_sim"
    /\ ski_iteration("dequeue_skiiers")

dispatch_leave_lift ==
    /\ loop = "ski_sim"
    /\ ski_iteration("leave_lift")

dispatch_join_queue ==
    /\ loop = "ski_sim"
    /\ ski_iteration("join_queue")

dispatch_calc_stats ==
    /\ loop = "ski_sim"
    /\ ski_iteration("calc_stats")

InitSki ==
    /\ loop = "ski_sim"
    /\ minDelay = 0
    /\ max_t = SkiMaxT
    /\ q = <<>>
    /\ t = 0
    /\ drain = FALSE
    /\ cdrain = <<>>
    /\ pc = "start"
    /\ err = ""
    /\ res = ListResult(<<>>)
    /\ nins = 0
    /\ dispatched = <<>>
    /\ config = NoConfig
    /\ clients = <<>>
    /\ strat = <<>>
    /\ calls = <<>>
    /\ stats = NoStats
    /\ collapse = Unused
    /\ ski = Unused
    /\ nudge = Unused
    /\ hist = <<>>
    /\ omission = Unused
    /\ lru = Unused

NextSki ==
    \/ seed_lift
    \/ dispatch_dequeue_skiiers
    \/ dispatch_leave_lift
    \/ dispatch_join_queue
    \/ dispatch_calc_stats
    \/ loop_exit("ski_sim")

SpecSki == InitSki /\ [][NextSki]_vars

\* ------------------------------------------------------ the Stats objects
\* The runs in which a Stats object reports: run_sim_ramp and run_sim_spike of
\* simple_collapse_sim with their q = [(1.0, stats.print_stats, None), ...],
\* and the runs of ski_sim above.

\* The q of run_sim_ramp when gen_load has made the client of this run, at a
\* time g that is a whole second or not: print_stats' first event and what the
\* client's send_new_req(g) returned.
seed_run_sim ==
    /\ loop = "simple_collapse_sim" /\ pc = "start"
    /\ \E ct \in CollapseClientTypes, g \in 0..1 :
       \E o \in send_new_req(NewCollapse(ct), g) :
          LET evs == <<Ev(PrintEvery, Method("print_stats", 0), None)>> \o o.r.evs
              h == heapify(Stamp(evs, 0))
          IN /\ collapse' = o.c
             /\ nins' = Len(evs)
             /\ IF h.ok THEN q' = h.heap /\ pc' = "running" /\ err' = ""
                ELSE q' = <<>> /\ pc' = "error" /\ err' = CompareError
    /\ UNCHANGED <<loop, minDelay, max_t, config, t, drain, cdrain, res, dispatched>>
    /\ UNCHANGED <<actors, ski, nudge, hist, omission, lru>>

dispatch_print_stats ==
    /\ loop = "simple_collapse_sim"
    /\ collapse_iteration("print_stats")

InitStats == InitCollapse \/ InitSki

NextStats ==
    \/ seed_run_sim
    \/ dispatch_timeout
    \/ dispatch_done
    \/ dispatch_server_start
    \/ dispatch_server_end
    \/ dispatch_print_stats
    \/ loop_exit("simple_collapse_sim")
    \/ seed_lift
    \/ dispatch_dequeue_skiiers
    \/ dispatch_leave_lift
    \/ dispatch_join_queue
    \/ dispatch_calc_stats
    \/ loop_exit("ski_sim")

SpecStats == InitStats /\ [][NextStats]_vars

\* ----------------------------------------------------- the retry strategies
\* The strategy objects of retry_strategy.py driven through their interface:
\* one strategy from factory.make(), the per-call strategies new_call() gives,
\* and start() and should_retry() called on them in any order.

\* Largest N of an NRetriesFactory drawn.
MaxN == 3
\* The per-call strategies obtained from new_call().
StrategyCalls == {1, 2}
\* Number of start() and should_retry() calls made in one run.
MaxOps == MaxN + 3

DivisionError == "ZeroDivisionError"

StrategyConfigs ==
    {Config("Client", "NRetries", n, 0) : n \in 0..MaxN}
    \cup {Config("Client", st, ThreeRetries, 0) : st \in {"Adaptive", "CircuitBreaker"}}

\* retry_strategy.new_call()
strategy_new_call ==
    /\ loop = "strategy" /\ pc = "start"
    /\ Len(calls) < Cardinality(StrategyCalls)
    /\ calls' = Append(calls, NewCall(1))
    /\ UNCHANGED <<loop, minDelay, max_t, q, t, drain, cdrain, pc, err, res, nins, dispatched,
                   config, clients, strat, stats, hist>>
    /\ UNCHANGED <<collapse, ski, nudge, omission, lru>>

\* start() on the strategy of call k
call_strategy_start ==
    /\ loop = "strategy" /\ pc = "start"
    /\ Len(hist) < MaxOps
    /\ \E k \in 1..Len(calls) :
          LET a == strategy_start(Actors, k)
          IN /\ strat' = a.strat
             /\ calls' = a.calls
             /\ hist' = Append(hist, [op |-> "start", k |-> k, ret |-> TRUE])
    /\ UNCHANGED <<loop, minDelay, max_t, q, t, drain, cdrain, pc, err, res, nins, dispatched,
                   config, clients, stats>>
    /\ UNCHANGED <<collapse, ski, nudge, omission, lru>>

\* should_retry() on the strategy of call k; CircuitBreakerRetryCall divides
\* failures by calls, which raises when start() was never called.
call_should_retry ==
    /\ loop = "strategy" /\ pc = "start"
    /\ Len(hist) < MaxOps
    /\ \E k \in 1..Len(calls) :
          IF config.strategy = "CircuitBreaker" /\ strat[calls[k].client].calls = 0
          THEN /\ strat' = [strat EXCEPT ![calls[k].client].failures = @ + 1]
               /\ pc' = "error" /\ err' = DivisionError
               /\ UNCHANGED <<calls, hist>>
          ELSE LET r == should_retry(Actors, k)
               IN /\ strat' = r.a.strat
                  /\ calls' = r.a.calls
                  /\ hist' = Append(hist, [op |-> "should_retry", k |-> k, ret |-> r.ret])
                  /\ UNCHANGED <<pc, err>>
    /\ UNCHANGED <<loop, minDelay, max_t, q, t, drain, cdrain, res, nins, dispatched,
                   config, clients, stats>>
    /\ UNCHANGED <<collapse, ski, nudge, omission, lru>>

\* factory.make() for one client
InitStrategy ==
    /\ loop = "strategy"
    /\ minDelay = 0
    /\ max_t = 0
    /\ q = <<>>
    /\ t = 0
    /\ drain = FALSE
    /\ cdrain = <<>>
    /\ pc = "start"
    /\ err = ""
    /\ res = ListResult(<<>>)
    /\ nins = 0
    /\ dispatched = <<>>
    /\ config \in StrategyConfigs
    /\ clients = <<NewClient>>
    /\ strat = <<NewStrategy>>
    /\ calls = <<>>
    /\ stats = NoStats
    /\ collapse = Unused
    /\ ski = Unused
    /\ nudge = Unused
    /\ hist = <<>>
    /\ omission = Unused
    /\ lru = Unused

NextStrategy ==
    \/ strategy_new_call
    \/ call_strategy_start
    \/ call_should_retry

SpecStrategy == InitStrategy /\ [][NextStrategy]_vars

\* -------------------------------------------------------------------- nudge
\* The Jobs, the queues, the Server and the Client of nudge/nudge.py, run by
\* its sim_loop.  Times and job sizes are in ticks.

\* Largest Job.size and largest time between two arrivals drawn.
MaxSize == 3
MaxGap == 2
\* max_t of the nudge runs.
NudgeMaxT == 6

QueueTypes == {"LIFO", "FCFS", "Nudge"}

\* Job.__init__; id is the identity of the object.
Job(id, tt, size) == [id |-> id, size |-> size, swapped |-> FALSE, created_t |-> tt]

\* in_flight = None
NoJob == [id |-> 0, size |-> 0, swapped |-> FALSE, created_t |-> 0]

\* FCFSQueue.append(job)
FCFSQueue_append(deque, job) == Append(deque, job)

\* NudgeQueue.append(job) without the test of last.swapped
NudgeQueue_append_swaps_again(deque, job) ==
    IF Len(deque) = 0 THEN Append(deque, job)
    ELSE LET last == deque[Len(deque)]
             front == SubSeq(deque, 1, Len(deque) - 1)
         IN IF last.size > job.size
            THEN Append(Append(front, job), [last EXCEPT !.swapped = TRUE])
            ELSE Append(Append(front, last), job)

\* NudgeQueue.append(job)
NudgeQueue_append(deque, job) ==
    IF Len(deque) = 0 THEN Append(deque, job)
    ELSE LET last == deque[Len(deque)]
             front == SubSeq(deque, 1, Len(deque) - 1)
         IN IF last.size > job.size /\ last.swapped = FALSE
            THEN Append(Append(front, job), [last EXCEPT !.swapped = TRUE])
            ELSE Append(Append(front, last), job)

\* FCFSQueue.pop(): deque.popleft()
FCFSQueue_pop(deque) == [item |-> deque[1], rest |-> SubSeq(deque, 2, Len(deque))]

\* LIFOQueue.pop(): deque.pop()
LIFOQueue_pop(deque) == pop(deque)

\* queue.append(job) and queue.pop() of a queue of type qt
queue_append(qt, deque, job) ==
    IF qt = "Nudge" THEN NudgeQueue_append(deque, job) ELSE FCFSQueue_append(deque, job)

queue_pop(qt, deque) ==
    IF qt = "LIFO" THEN LIFOQueue_pop(deque) ELSE FCFSQueue_pop(deque)

\* Server.__init__; made is the number of Jobs created.
NewServer(qt) ==
    [queue_type |-> qt, busy |-> FALSE, in_flight |-> NoJob, deque |-> <<>>, made |-> 0]

\* Server.job_done(t) going idle although it took the next job from the queue.
job_done_goes_idle(s, tt) ==
    IF ~s.busy THEN {Raise(s)}
    ELSE IF Len(s.deque) > 0
         THEN LET p == queue_pop(s.queue_type, s.deque)
              IN {Return(ListResult(<<Ev(tt + p.item.size, Method("job_done", 0), None)>>),
                         [s EXCEPT !.deque = p.rest, !.in_flight = p.item, !.busy = FALSE])}
         ELSE {Return(NoneResult, [s EXCEPT !.in_flight = NoJob, !.busy = FALSE])}

\* Server.job_done(t)
job_done(s, tt) ==
    IF ~s.busy THEN {Raise(s)}
    ELSE IF Len(s.deque) > 0
         THEN LET p == queue_pop(s.queue_type, s.deque)
              IN {Return(ListResult(<<Ev(tt + p.item.size, Method("job_done", 0), None)>>),
                         [s EXCEPT !.deque = p.rest, !.in_flight = p.item])}
         ELSE {Return(NoneResult, [s EXCEPT !.in_flight = NoJob, !.busy = FALSE])}

\* Server.start(job)
start(s, job) ==
    IF s.busy THEN Raise(s)
    ELSE Return(NoneResult, [s EXCEPT !.busy = TRUE, !.in_flight = job])

\* Client.generate(t), for the job size and the time to the next arrival drawn
generate_drawn(s, tt, size, gap) ==
    LET job == Job(s.made + 1, tt, size)
        s1 == [s EXCEPT !.made = @ + 1]
    IN IF s1.busy
       THEN Return(ListResult(<<Ev(tt + gap, Method("generate", 0), None)>>),
                   [s1 EXCEPT !.deque = queue_append(s1.queue_type, @, job)])
       ELSE LET st == start(s1, job)
            IN IF st.raised THEN st
               ELSE Return(ListResult(<<Ev(tt + gap, Method("generate", 0), None),
                                        Ev(tt + job.size, Method("job_done", 0), None)>>),
                           st.c)

\* Client.generate(t)
generate(s, tt) ==
    {generate_drawn(s, tt, size, gap) : size \in 1..MaxSize, gap \in 1..MaxGap}

\* call(t) for the event e popped by nudge's sim_loop
NudgeDispatch(e) ==
    CASE e.h.fn = "generate" -> generate(nudge, e.time)
      [] e.h.fn = "job_done" -> job_done(nudge, e.time)

\* One iteration of nudge's sim_loop that pops an event whose callback is fn.
nudge_iteration(fn) ==
    /\ pc = "running" /\ loop_condition("nudge")
    /\ LET p == heappop(q)
       IN IF ~p.ok THEN pop_raises
          ELSE /\ p.item.h.fn = fn
               /\ \E o \in NudgeDispatch(p.item) :
                     /\ IF o.raised
                        THEN /\ t' = p.item.time
                             /\ dispatched' = Append(dispatched, p.item)
                             /\ q' = <<>> /\ pc' = "error" /\ err' = HandlerError
                             /\ UNCHANGED <<loop, minDelay, max_t, config, drain, cdrain, res, nins>>
                        ELSE iteration("nudge", p, o.r)
                     /\ nudge' = o.c
                     /\ UNCHANGED <<actors, collapse, ski, hist, omission, lru>>

\* run_sims makes the queue, the server and the client; sim_loop starts from
\* q = [(t, client.generate)]
seed_client ==
    /\ loop = "nudge" /\ pc = "start"
    /\ \E qt \in QueueTypes : nudge' = NewServer(qt)
    /\ q' = Stamp(<<Ev(0, Method("generate", 0), None)>>, 0)
    /\ nins' = 1
    /\ pc' = "running"
    /\ UNCHANGED <<loop, minDelay, max_t, config, t, drain, cdrain, err, res, dispatched>>
    /\ UNCHANGED <<actors, collapse, ski, hist, omission, lru>>

dispatch_generate ==
    /\ loop = "nudge"
    /\ nudge_iteration("generate")

dispatch_job_done ==
    /\ loop = "nudge"
    /\ nudge_iteration("job_done")

InitNudge ==
    /\ loop = "nudge"
    /\ minDelay = 0
    /\ max_t = NudgeMaxT
    /\ q = <<>>
    /\ t = 0
    /\ drain = FALSE
    /\ cdrain = <<>>
    /\ pc = "start"
    /\ err = ""
    /\ res = ListResult(<<>>)
    /\ nins = 0
    /\ dispatched = <<>>
    /\ config = NoConfig
    /\ clients = <<>>
    /\ strat = <<>>
    /\ calls = <<>>
    /\ stats = NoStats
    /\ collapse = Unused
    /\ ski = Unused
    /\ nudge = Unused
    /\ hist = <<>>
    /\ omission = Unused
    /\ lru = Unused

NextNudge ==
    \/ seed_client
    \/ dispatch_generate
    \/ dispatch_job_done
    \/ loop_exit("nudge")

SpecNudge == InitNudge /\ [][NextNudge]_vars

\* ------------------------------------------------------------ NudgeQueue
\* A NudgeQueue driven through its interface: append(job) and pop() in any
\* order.

\* Number of Jobs appended in one run.
MaxJobs == 5

EmptyDeque == "IndexError: pop from an empty deque"

\* The jobs of deque that sit behind the job with identity id.
Behind(deque, id) ==
    {deque[i].id : i \in {i \in 1..Len(deque) : \E j \in 1..i - 1 : deque[j].id = id}}

\* NudgeQueue.__init__; made is the number of Jobs created, over is history:
\* the pairs <<a, b>> of identities such that job a was appended after job b
\* and put in front of it.
NewNudgeQueue == [deque |-> <<>>, made |-> 0, over |-> {}]

\* queue.append(Job(t)) for a job of any size
nudge_queue_append ==
    /\ loop = "NudgeQueue" /\ pc = "start"
    /\ nudge.made < MaxJobs
    /\ \E size \in 1..MaxSize :
          LET job == Job(nudge.made + 1, 0, size)
              deque == NudgeQueue_append(nudge.deque, job)
          IN nudge' = [deque |-> deque, made |-> nudge.made + 1,
                       over |-> nudge.over \cup {<<job.id, b>> : b \in Behind(deque, job.id)}]
    /\ UNCHANGED <<loop, minDelay, max_t, q, t, drain, cdrain, pc, err, res, nins, dispatched,
                   config, hist>>
    /\ UNCHANGED <<actors, collapse, ski, omission, lru>>

\* queue.pop(); popleft() of an empty deque raises
nudge_queue_pop ==
    /\ loop = "NudgeQueue" /\ pc = "start"
    /\ IF Len(nudge.deque) = 0
       THEN /\ pc' = "error" /\ err' = EmptyDeque
            /\ UNCHANGED <<nudge, hist>>
       ELSE LET p == FCFSQueue_pop(nudge.deque)
            IN /\ nudge' = [nudge EXCEPT !.deque = p.rest]
               /\ hist' = Append(hist, p.item)
               /\ UNCHANGED <<pc, err>>
    /\ UNCHANGED <<loop, minDelay, max_t, q, t, drain, cdrain, res, nins, dispatched, config>>
    /\ UNCHANGED <<actors, collapse, ski, omission, lru>>

InitQueue ==
    /\ loop = "NudgeQueue"
    /\ minDelay = 0
    /\ max_t = 0
    /\ q = <<>>
    /\ t = 0
    /\ drain = FALSE
    /\ cdrain = <<>>
    /\ pc = "start"
    /\ err = ""
    /\ res = ListResult(<<>>)
    /\ nins = 0
    /\ dispatched = <<>>
    /\ config = NoConfig
    /\ clients = <<>>
    /\ strat = <<>>
    /\ calls = <<>>
    /\ stats = NoStats
    /\ collapse = Unused
    /\ ski = Unused
    /\ nudge = NewNudgeQueue
    /\ hist = <<>>
    /\ omission = Unused
    /\ lru = Unused

NextQueue ==
    \/ nudge_queue_append
    \/ nudge_queue_pop

SpecQueue == InitQueue /\ [][NextQueue]_vars

\* ----------------------------------------------------------------- omission
\* The Server, its FCFSQueue and the three clients of omission/omission.py,
\* run by its sim_loop.  Times and job sizes are in ticks.

\* Largest mpl of a Server and of a ClosedLoopClient drawn.
MaxMpl == 2
\* max_t of the omission runs.
OmissionMaxT == 4

OmissionClientTypes == {"OpenLoopClient", "ClosedLoopClient", "OpenLoopClientWithTimeout"}

\* self.job_type(t): ExpJob, BiModJob or WeibullJob; id is the identity of the
\* object.
NewJob(id, tt, size) == [id |-> id, size |-> size, created_t |-> tt]

\* None in a slot of Server.jobs
NoneJob == [id |-> 0, size |-> 0, created_t |-> 0]

\* Server.__init__ and the client's __init__: mpl slots, all None; cmpl is the
\* ClosedLoopClient's mpl, timeout the OpenLoopClientWithTimeout's; made is
\* the number of jobs created.
NewOmission(ct, mpl, cmpl, timeout) ==
    [client_type |-> ct, mpl |-> mpl, cmpl |-> cmpl, timeout |-> timeout,
     busy |-> 0, jobs |-> [i \in 1..mpl |-> NoneJob], deque |-> <<>>, made |-> 0]

\* Server.offer(job, t): r is <<>> for None, or the one event returned.
Server_offer(s, job, tt) ==
    IF s.busy < s.mpl
    THEN LET s1 == [s EXCEPT !.busy = @ + 1]
             free == {i \in 1..s.mpl : s.jobs[i] = NoneJob}
         IN IF free = {} THEN Raise(s1)
            ELSE LET i == CHOOSE i \in free : \A j \in free : i <= j
                 IN Return(<<Ev(tt + job.size, Method("job_done", 0), IntPayload(i - 1))>>,
                           [s1 EXCEPT !.jobs[i] = job])
    ELSE Return(<<>>, [s EXCEPT !.deque = FCFSQueue_append(@, job)])

\* self.server.offer(self.job_type(t), t) for every job size drawn
offer_new_job(s, tt) ==
    {Server_offer([s EXCEPT !.made = @ + 1], NewJob(s.made + 1, tt, size), tt) :
         size \in 1..MaxSize}

\* OpenLoopClient.generate and OpenLoopClientWithTimeout.generate
OpenLoopClient_generate(s, tt) ==
    {IF o.raised THEN o
     ELSE Return(ListResult(<<Ev(tt + gap, Method("generate", 0), None)>> \o o.r), o.c) :
         o \in offer_new_job(s, tt), gap \in 1..MaxGap}

RECURSIVE offers(_, _, _, _)
\* The rest of the list comprehension of ClosedLoopClient.generate, i offers
\* to go; the offers that returned None are left out.
offers(s, evs, i, tt) ==
    IF i = 0 THEN {Return(ListResult(evs), s)}
    ELSE UNION {IF o.raised THEN {o} ELSE offers(o.c, evs \o o.r, i - 1, tt) :
                    o \in offer_new_job(s, tt)}

\* ClosedLoopClient.generate
ClosedLoopClient_generate(s, tt) == offers(s, <<>>, s.cmpl, tt)

\* ClosedLoopClient.think_done that offers no job.
ClosedLoopClient_think_done_idle(s, tt) == {Return(NoneResult, s)}

\* ClosedLoopClient.think_done
ClosedLoopClient_think_done(s, tt) ==
    {IF o.raised THEN o
     ELSE IF o.r = <<>> THEN Return(NoneResult, o.c) ELSE Return(ListResult(o.r), o.c) :
         o \in offer_new_job(s, tt)}

\* client.done(t, completed) of the three clients: r is <<>> for None, or the
\* one event returned.
client_done(s, tt, completed) ==
    CASE s.client_type = "OpenLoopClient" -> {Return(<<>>, s)}
      [] s.client_type = "ClosedLoopClient" ->
             {Return(<<Ev(tt + d, Method("think_done", 0), None)>>, s) : d \in 1..MaxGap}
      [] s.client_type = "OpenLoopClientWithTimeout" ->
             IF tt - completed.created_t > s.timeout
             THEN offer_new_job(s, tt)
             ELSE {Return(<<>>, s)}

\* Server.job_done(t, n) handing the freed slot to nobody: busy is not
\* decremented when the queue is empty.
Server_job_done_keeps_busy(s, tt, n) ==
    IF s.busy <= 0 \/ s.jobs[n + 1] = NoneJob THEN {Raise(s)}
    ELSE LET completed == s.jobs[n + 1]
             nonempty == Len(s.deque) > 0
             p == FCFSQueue_pop(s.deque)
             s1 == IF nonempty
                   THEN [s EXCEPT !.deque = p.rest, !.jobs[n + 1] = p.item]
                   ELSE [s EXCEPT !.jobs[n + 1] = NoneJob]
             events == IF nonempty
                       THEN <<Ev(tt + p.item.size, Method("job_done", 0), IntPayload(n))>>
                       ELSE <<>>
         IN {IF d.raised THEN d ELSE Return(ListResult(events \o d.r), d.c) :
                 d \in client_done(s1, tt, completed)}

\* Server.job_done(t, n); the write of completed.created_t raises when the
\* slot holds None.
Server_job_done(s, tt, n) ==
    IF s.busy <= 0 \/ s.jobs[n + 1] = NoneJob THEN {Raise(s)}
    ELSE LET completed == s.jobs[n + 1]
             nonempty == Len(s.deque) > 0
             p == FCFSQueue_pop(s.deque)
             s1 == IF nonempty
                   THEN [s EXCEPT !.deque = p.rest, !.jobs[n + 1] = p.item]
                   ELSE [s EXCEPT !.busy = @ - 1, !.jobs[n + 1] = NoneJob]
             events == IF nonempty
                       THEN <<Ev(tt + p.item.size, Method("job_done", 0), IntPayload(n))>>
                       ELSE <<>>
         IN {IF d.raised THEN d ELSE Return(ListResult(events \o d.r), d.c) :
                 d \in client_done(s1, tt, completed)}

\* call(t, payload) for the event e popped by omission's sim_loop
OmissionDispatch(e) ==
    CASE e.h.fn = "generate" ->
             IF omission.client_type = "ClosedLoopClient"
             THEN ClosedLoopClient_generate(omission, e.time)
             ELSE OpenLoopClient_generate(omission, e.time)
      [] e.h.fn = "think_done" -> ClosedLoopClient_think_done(omission, e.time)
      [] e.h.fn = "job_done" -> Server_job_done(omission, e.time, e.payload.v)

\* One iteration of omission's sim_loop that pops an event whose callback is fn.
omission_iteration(fn) ==
    /\ pc = "running" /\ loop_condition("omission")
    /\ LET p == heappop(q)
       IN IF ~p.ok THEN pop_raises
          ELSE /\ p.item.h.fn = fn
               /\ \E o \in OmissionDispatch(p.item) :
                     /\ IF o.raised
                        THEN /\ t' = p.item.time
                             /\ dispatched' = Append(dispatched, p.item)
                             /\ q' = <<>> /\ pc' = "error" /\ err' = HandlerError
                             /\ UNCHANGED <<loop, minDelay, max_t, config, drain, cdrain, res, nins>>
                        ELSE iteration("omission", p, o.r)
                     /\ omission' = o.c
                     /\ UNCHANGED <<actors, collapse, ski, nudge, hist, lru>>

\* make_sim_* makes the client and its server; sim_loop starts from
\* q = [(t, client.generate, None)]
seed_omission ==
    /\ loop = "omission" /\ pc = "start"
    /\ \E ct \in OmissionClientTypes, mpl \in 1..MaxMpl, cmpl \in 1..MaxMpl, timeout \in 1..MaxGap :
          /\ ct # "ClosedLoopClient" => cmpl = 1
          /\ ct # "OpenLoopClientWithTimeout" => timeout = 1
          /\ omission' = NewOmission(ct, mpl, cmpl, timeout)
    /\ q' = Stamp(<<Ev(0, Method("generate", 0), None)>>, 0)
    /\ nins' = 1
    /\ pc' = "running"
    /\ UNCHANGED <<loop, minDelay, max_t, config, t, drain, cdrain, err, res, dispatched>>
    /\ UNCHANGED <<actors, collapse, ski, nudge, hist, lru>>

dispatch_omission_generate ==
    /\ loop = "omission"
    /\ omission_iteration("generate")

dispatch_think_done ==
    /\ loop = "omission"
    /\ omission_iteration("think_done")

dispatch_omission_job_done ==
    /\ loop = "omission"
    /\ omission_iteration("job_done")

InitOmission ==
    /\ loop = "omission"
    /\ minDelay = 0
    /\ max_t = OmissionMaxT
    /\ q = <<>>
    /\ t = 0
    /\ drain = FALSE
    /\ cdrain = <<>>
    /\ pc = "start"
    /\ err = ""
    /\ res = ListResult(<<>>)
    /\ nins = 0
    /\ dispatched = <<>>
    /\ config = NoConfig
    /\ clients = <<>>
    /\ strat = <<>>
    /\ calls = <<>>
    /\ stats = NoStats
    /\ collapse = Unused
    /\ ski = Unused
    /\ nudge = Unused
    /\ hist = <<>>
    /\ omission = Unused
    /\ lru = Unused

NextOmission ==
    \/ seed_omission
    \/ dispatch_omission_generate
    \/ dispatch_think_done
    \/ dispatch_omission_job_done
    \/ loop_exit("omission")

SpecOmission == InitOmission /\ [][NextOmission]_vars

\* ---------------------------------------------------------------- cache_sim
\* The LRU cache of cache_sim/cache_sim.py and the calls of its methods.

\* Largest key random.zipf draws.
MaxKey == 4
\* Largest capacity handed to LRU.
MaxCapacity == 3

Keys == 1..MaxKey

\* Python's True and None as stored in and returned by the OrderedDict.
PyTrue == "True"
PyNone == "None"

\* An item of the OrderedDict; the sequence of items is in the order of
\* insertion, popitem(last=False) takes the first.
Item(k, v) == [k |-> k, v |-> v]

\* The keys of an OrderedDict in its order.
KeysOf(map) == [i \in 1..Len(map) |-> map[i].k]

\* The set of the elements of a sequence
Range(s) == {s[i] : i \in 1..Len(s)}

\* s without the elements equal to x
Without(s, x) == SelectSeq(s, LAMBDA y : y # x)

\* LRU.__init__(capacity): primed with the keys 1..capacity.  called (the last
\* call, its return value and the keys before it) and recency (every key ever
\* stored or found, in the order of its last put or successful is_cached) are
\* history.
NewLRU(capacity) ==
    [capacity |-> capacity,
     map |-> [i \in 1..capacity |-> Item(i, PyTrue)],
     called |-> [op |-> "", k |-> 0, ret |-> PyNone, before |-> <<>>],
     recency |-> [i \in 1..capacity |-> i]]

\* LRU.put that evicts the item inserted last.
LRU_put_evicts_newest(c, k, v) ==
    LET has == k \in Range(KeysOf(c.map))
        v1 == IF has THEN (CHOOSE it \in Range(c.map) : it.k = k).v ELSE v
        m1 == IF has THEN SelectSeq(c.map, LAMBDA it : it.k # k) ELSE c.map
        m2 == IF Len(m1) = c.capacity THEN SubSeq(m1, 1, Len(m1) - 1) ELSE m1
        m3 == IF v1 # PyNone THEN Append(m2, Item(k, v1)) ELSE m2
    IN Result(v1, [c EXCEPT !.map = m3])

\* LRU.put(k, v)
LRU_put(c, k, v) ==
    LET has == k \in Range(KeysOf(c.map))
        v1 == IF has THEN (CHOOSE it \in Range(c.map) : it.k = k).v ELSE v
        m1 == IF has THEN SelectSeq(c.map, LAMBDA it : it.k # k) ELSE c.map
        m2 == IF Len(m1) = c.capacity THEN Tail(m1) ELSE m1
        m3 == IF v1 # PyNone THEN Append(m2, Item(k, v1)) ELSE m2
    IN Result(v1, [c EXCEPT !.map = m3])

\* LRU.is_cached(k): return self.put(k, None) is not None
LRU_is_cached(c, k) ==
    LET o == LRU_put(c, k, PyNone)
    IN Result(o.r # PyNone, o.c)

\* LRU.flush()
LRU_flush(c) == Result(PyNone, [c EXCEPT !.map = <<>>])

\* The history after the call op(k) returned ret: k is the most recent key if
\* the call was a put or an is_cached that returned True.
Called(c, o, op, k) ==
    [o.c EXCEPT !.called = [op |-> op, k |-> k, ret |-> o.r, before |-> KeysOf(c.map)],
                !.recency = IF op = "put" \/ (op = "is_cached" /\ o.r = TRUE)
                            THEN Append(Without(@, k), k) ELSE @]

\* lru.put(key, True), as run_sim calls it
call_put ==
    /\ loop = "cache_sim"
    /\ \E k \in Keys : lru' = Called(lru, LRU_put(lru, k, PyTrue), "put", k)
    /\ UNCHANGED <<loop, minDelay, max_t, q, t, drain, cdrain, pc, err, res, nins, dispatched,
                   config>>
    /\ UNCHANGED <<actors, collapse, ski, nudge, hist, omission>>

\* lru.is_cached(key)
call_is_cached ==
    /\ loop = "cache_sim"
    /\ \E k \in Keys : lru' = Called(lru, LRU_is_cached(lru, k), "is_cached", k)
    /\ UNCHANGED <<loop, minDelay, max_t, q, t, drain, cdrain, pc, err, res, nins, dispatched,
                   config>>
    /\ UNCHANGED <<actors, collapse, ski, nudge, hist, omission>>

\* lru.flush()
call_flush ==
    /\ loop = "cache_sim"
    /\ lru' = Called(lru, LRU_flush(lru), "flush", 0)
    /\ UNCHANGED <<loop, minDelay, max_t, q, t, drain, cdrain, pc, err, res, nins, dispatched,
                   config>>
    /\ UNCHANGED <<actors, collapse, ski, nudge, hist, omission>>

\* lru = LRU(cache_size)
InitLRU ==
    /\ loop = "cache_sim"
    /\ minDelay = 0
    /\ max_t = 0
    /\ q = <<>>
    /\ t = 0
    /\ drain = FALSE
    /\ cdrain = <<>>
    /\ pc = "running"
    /\ err = ""
    /\ res = ListResult(<<>>)
    /\ nins = 0
    /\ dispatched = <<>>
    /\ config = NoConfig
    /\ clients = <<>>
    /\ strat = <<>>
    /\ calls = <<>>
    /\ stats = NoStats
    /\ collapse = Unused
    /\ ski = Unused
    /\ nudge = Unused
    /\ hist = <<>>
    /\ omission = Unused
    /\ lru \in {NewLRU(capacity) : capacity \in 1..MaxCapacity}

NextLRU ==
    \/ call_put
    \/ call_is_cached
    \/ call_flush

SpecLRU == InitLRU /\ [][NextLRU]_vars

\* ------------------------------------------------ properties of the actors

\* The step dispatches Client.timeout or Client.done with an attempt number
\* that is not the client's current_try.
StaleDispatched ==
    /\ loop = "simple_collapse_sim"
    /\ Len(dispatched') = Len(dispatched) + 1
    /\ Last(dispatched').h.fn \in {"timeout", "done"}
    /\ Last(dispatched').payload.v # collapse.client.current_try

\* C12: in simple_collapse_sim, dispatching Client.timeout or Client.done with
\* an attempt number different from the client's current_try returns no
\* follow-up events and changes none of starts, successes, retries, timeouts,
\* retries_left and current_try.
StaleEventsAreNoOps ==
    [][StaleDispatched =>
          /\ res' = NoneResult
          /\ nins' = nins
          /\ collapse'.data = collapse.data
          /\ collapse'.client.retries_left = collapse.client.retries_left
          /\ collapse'.client.current_try = collapse.client.current_try]_vars

\* The timeout of an attempt that already succeeded has been dispatched, and
\* nothing but the success is counted.
TimeoutAfterSuccess ==
    /\ loop = "simple_collapse_sim"
    /\ pc = "running"
    /\ dispatched # <<>>
    /\ Last(dispatched).h.fn = "timeout"
    /\ Last(dispatched).payload.v < collapse.client.current_try
    /\ collapse.data.successes = 1
    /\ collapse.data.timeouts = 0
    /\ collapse.data.retries = 0
    /\ res = NoneResult

\* Every request the client sent has timed out and the client has stopped.
GaveUp ==
    /\ loop = "simple_collapse_sim"
    /\ pc = "done"
    /\ collapse # Unused
    /\ collapse.data.successes = 0
    /\ collapse.data.timeouts = collapse.sent

\* C19: a simple_collapse_sim Client never performs more than 3 retries, and
\* a client whose every attempt times out performs exactly 3 retries, i.e.
\* sends 4 requests to the server, before giving up.
ThreeRetriesBeforeGivingUp ==
    /\ collapse # Unused => collapse.data.retries <= 3
    /\ GaveUp => collapse.data.retries = 3 /\ collapse.sent = 4

\* The step dispatches Lift.dequeue_skiiers.
DequeueDispatched ==
    /\ loop = "ski_sim"
    /\ Len(dispatched') = Len(dispatched) + 1
    /\ Last(dispatched').h.fn = "dequeue_skiiers"

\* The skiiers in a lift queue.
InQueue(queue) == {queue[i] : i \in 1..Len(queue)}

\* C13: Lift.dequeue_skiiers dispatched at time t with n skiiers in the queue
\* boards exactly min(chair_width, n) of them (each removed from the queue and
\* moved from WAITING to RIDING_LIFT, with one leave_lift event each) and
\* returns exactly one new dequeue_skiiers event, at t + chair_period.
BoardsOneChair ==
    [][DequeueDispatched =>
          LET n == Len(ski.queue)
              b == Min(ski.chair_width, n)
              boarded == InQueue(ski.queue) \ InQueue(ski'.queue)
              evs == res'.evs
          IN /\ Cardinality(boarded) = b
             /\ Len(ski'.queue) = n - b
             /\ InQueue(ski'.queue) \subseteq InQueue(ski.queue)
             /\ \A k \in DOMAIN ski.state :
                   IF k \in boarded
                   THEN /\ ski.state[k] = "WAITING"
                        /\ ski'.state[k] = "RIDING_LIFT"
                        /\ Cardinality({i \in 1..Len(evs) : evs[i].h = Method("leave_lift", k)}) = 1
                   ELSE /\ ski'.state[k] = ski.state[k]
                        /\ \A i \in 1..Len(evs) : evs[i].h # Method("leave_lift", k)
             /\ Len(evs) = b + 1
             /\ Cardinality({i \in 1..Len(evs) : evs[i].h.fn = "dequeue_skiiers"}) = 1
             /\ \A i \in 1..Len(evs) :
                   evs[i].h.fn = "dequeue_skiiers" => evs[i].time = t' + ski.chair_period]_vars

\* A chair has just left full with skiiers still waiting.
FullChairLeavesSkiiersWaiting ==
    /\ loop = "ski_sim"
    /\ dispatched # <<>>
    /\ Last(dispatched).h.fn = "dequeue_skiiers"
    /\ Len(res.evs) = ski.chair_width + 1
    /\ Len(ski.queue) > 0
\* The number of should_retry() calls on the strategy of call k among the
\* first i calls recorded.
Asked(k, i) ==
    Cardinality({j \in 1..i : hist[j].op = "should_retry" /\ hist[j].k = k})

\* C14: on a strategy obtained from NRetriesStrategy(N).new_call(), for any
\* N >= 0, the first N calls of should_retry() return true and every later one
\* false, whatever retries the strategies of other calls have consumed.
NRetriesGrantsExactlyN ==
    loop = "strategy" /\ config.strategy = "NRetries" =>
        \A i \in 1..Len(hist) :
            hist[i].op = "should_retry" => (hist[i].ret <=> Asked(hist[i].k, i) <= config.N)

\* With N = 3 the strategy of one call has answered true, true, true, false
\* while the strategy of another call was granted a retry in between.
BudgetSpentNextToAnotherCall ==
    /\ loop = "strategy"
    /\ config.strategy = "NRetries"
    /\ config.N = 3
    /\ hist # <<>>
    /\ Last(hist).op = "should_retry"
    /\ Last(hist).k = 1
    /\ ~Last(hist).ret
    /\ Asked(1, Len(hist)) = 4
    /\ \E i \in 2..Len(hist) - 1 : hist[i].op = "should_retry" /\ hist[i].k = 2 /\ hist[i].ret

\* The step is a should_retry() on a CircuitBreakerRetryCall made while the
\* shared strategy has failures / calls > max_rate.
AskedWithBreakerOpen ==
    /\ loop = "strategy"
    /\ config.strategy = "CircuitBreaker"
    /\ Len(hist') = Len(hist) + 1
    /\ Last(hist').op = "should_retry"
    /\ strat[1].calls > 0
    /\ strat[1].failures * MaxRateDen > strat[1].calls

\* C15: whenever the shared CircuitBreakerRetryStrategy has failures / calls
\* > max_rate, CircuitBreakerRetryCall.should_retry() returns false and does
\* not consume the retry budget of the inner strategy.
BreakerOpenRefusesRetry ==
    [][AskedWithBreakerOpen =>
          /\ ~Last(hist').ret
          /\ \A k \in 1..Len(calls) : calls'[k].n_tries = calls[k].n_tries]_vars

\* The breaker has refused a retry, the failure rate being above max_rate
\* before the call, although the inner strategy has its whole budget left.
RefusedWithBudgetLeft ==
    /\ loop = "strategy"
    /\ config.strategy = "CircuitBreaker"
    /\ hist # <<>>
    /\ Last(hist).op = "should_retry"
    /\ ~Last(hist).ret
    /\ strat[1].calls > 0
    /\ (strat[1].failures - 1) * MaxRateDen > strat[1].calls
    /\ calls[Last(hist).k].n_tries = 0
    /\ config.N > 0

\* C16: an AdaptiveRetryStrategy whose bucket of integer size B starts full
\* grants exactly B consecutive retries when no start() intervenes: the first
\* B calls of should_retry() return true and the next one false.
AdaptiveGrantsBucketSize ==
    /\ loop = "strategy"
    /\ config.strategy = "Adaptive"
    /\ \A j \in 1..Len(hist) : hist[j].op = "should_retry"
    => \A i \in 1..Len(hist) : hist[i].ret <=> i * 10 <= BucketSize

\* The number of job_done events pending in q.
PendingJobDone == Cardinality({i \in 1..Len(q) : q[i].h.fn = "job_done"})

\* C17: in a nudge run no assert of the Server fires (job_done is dispatched
\* only while busy, start is called only while not busy): at every iteration
\* of sim_loop busy holds iff in_flight is not None iff exactly one job_done
\* event is pending, and a non-empty job queue implies busy.
ServerAssertsNeverFire ==
    loop = "nudge" /\ nudge # Unused =>
        /\ err # HandlerError
        /\ nudge.busy <=> nudge.in_flight # NoJob
        /\ Len(nudge.deque) > 0 => nudge.busy
        /\ pc # "error" => PendingJobDone = (IF nudge.busy THEN 1 ELSE 0)

\* job_done has just taken a queued job into service while another one waits.
QueuedJobTakenIntoService ==
    /\ loop = "nudge"
    /\ pc = "running"
    /\ dispatched # <<>>
    /\ Last(dispatched).h.fn = "job_done"
    /\ nudge.busy
    /\ nudge.in_flight.id >= 2
    /\ Len(nudge.deque) > 0
    /\ PendingJobDone = 1
\* The step appends a job to the NudgeQueue and puts it in front of the job
\* that was at the tail.
Swapped ==
    /\ loop = "NudgeQueue"
    /\ nudge'.made = nudge.made + 1
    /\ Len(nudge.deque) > 0
    /\ nudge'.deque[Len(nudge'.deque)].id = nudge.deque[Len(nudge.deque)].id

\* C20: in a NudgeQueue, after any sequence of append and pop operations, no
\* job has been overtaken by more than one later job and no job has overtaken
\* more than one earlier job (each job takes part in at most one swap), and an
\* append swaps only when the job at the tail is strictly larger than the new
\* job and has not been swapped before.
AtMostOneSwapPerJob ==
    /\ [](loop = "NudgeQueue" =>
             \A id \in 1..nudge.made :
                 Cardinality({p \in nudge.over : p[1] = id \/ p[2] = id}) <= 1)
    /\ [][Swapped =>
             LET last == nudge.deque[Len(nudge.deque)]
                 job == nudge'.deque[Len(nudge'.deque) - 1]
             IN /\ last.size > job.size
                /\ last.swapped = FALSE
                /\ nudge'.over = nudge.over \cup {<<job.id, last.id>>}]_vars

\* A job that was swapped once sits in front of a smaller job appended later
\* that did not overtake it.
SwappedJobNotOvertakenAgain ==
    /\ loop = "NudgeQueue"
    /\ Len(nudge.deque) >= 3
    /\ nudge.deque[Len(nudge.deque) - 1].swapped
    /\ nudge.deque[Len(nudge.deque) - 1].size > nudge.deque[Len(nudge.deque)].size
    /\ Cardinality(nudge.over) = 1
    /\ hist # <<>>

\* The client an event of retry_sim belongs to: its own gen_load, or the
\* start, handle, done_success or done_failure of one of its Calls.
Owner(e) ==
    IF e.h.fn = "gen_load" THEN e.h.self
    ELSE IF e.h.fn = "handle" THEN calls[e.payload.v].client
    ELSE calls[e.h.self].client

\* The Calls of client c that are scheduled or started and not yet final.
InFlight(c) ==
    {k \in DOMAIN calls : calls[k].client = c /\ calls[k].state \in {"scheduled", "started"}}

\* C18: a SerialClient or SerialClientWithBackoff has, at every point of a
\* retry_sim run, at most one Call scheduled or started and not yet at its
\* final outcome, and at most one event of its own pending in the queue.
SerialClientsOneCallInFlight ==
    loop = "retry_sim" /\ config.client_type \in {"SerialClient", "SerialClientWithBackoff"} =>
        \A c \in 1..Len(clients) :
            /\ Cardinality(InFlight(c)) <= 1
            /\ Cardinality({i \in 1..Len(q) : Owner(q[i]) = c}) <= 1

\* Two serial clients run side by side; one of them has finished a Call and
\* has its next Call, and nothing else, pending.
NextCallAfterFinalOutcome ==
    /\ loop = "retry_sim"
    /\ config.client_type \in {"SerialClient", "SerialClientWithBackoff"}
    /\ pc = "running"
    /\ Len(clients) = 2
    /\ \E k \in DOMAIN calls :
          /\ calls[k].state \in {"success", "failure"}
          /\ Cardinality(InFlight(calls[k].client)) = 1
          /\ Cardinality({i \in 1..Len(q) : Owner(q[i]) = calls[k].client}) = 1

\* The events pending in q whose callback is the method fn of skiier k.
PendingFor(fn, k) == Cardinality({i \in 1..Len(q) : q[i].h = Method(fn, k)})

\* The state a skiier moves to from state s.
NextSkiierState(s) ==
    CASE s = "WAITING" -> "RIDING_LIFT"
      [] s = "RIDING_LIFT" -> "SKIING"
      [] s = "SKIING" -> "WAITING"

\* C21: in every ski_sim run each skiier only moves WAITING -> RIDING_LIFT ->
\* SKIING -> WAITING, no assert of board_lift, leave_lift and join_queue fails,
\* a skiier is in lift.queue exactly when WAITING and at most once, and every
\* skiier not WAITING has exactly one pending event (leave_lift when
\* RIDING_LIFT, join_queue when SKIING).
SkiierStateMachine ==
    /\ [](loop = "ski_sim" /\ ski # Unused =>
             /\ err # HandlerError
             /\ \A k \in DOMAIN ski.state :
                   /\ Cardinality({i \in 1..Len(ski.queue) : ski.queue[i] = k})
                          = (IF ski.state[k] = "WAITING" THEN 1 ELSE 0)
                   /\ pc # "error" =>
                         /\ PendingFor("leave_lift", k) = (IF ski.state[k] = "RIDING_LIFT" THEN 1 ELSE 0)
                         /\ PendingFor("join_queue", k) = (IF ski.state[k] = "SKIING" THEN 1 ELSE 0))
    /\ [][loop = "ski_sim" /\ ski # Unused =>
             \A k \in DOMAIN ski.state :
                 ski'.state[k] # ski.state[k] => ski'.state[k] = NextSkiierState(ski.state[k])]_vars

\* A skiier of several has gone round once: it rode the lift, skied down and
\* has just joined the end of the queue again.
SkiierBackInQueue ==
    /\ loop = "ski_sim"
    /\ pc = "running"
    /\ dispatched # <<>>
    /\ Last(dispatched).h.fn = "join_queue"
    /\ ski.state[Last(dispatched).h.self] = "WAITING"
    /\ Len(ski.state) >= 2
    /\ Len(ski.queue) > 0
    /\ ski.queue[Len(ski.queue)] = Last(dispatched).h.self

\* The number of dispatches of the callback fn so far.
Dispatches(fn) == Cardinality({i \in 1..Len(dispatched) : dispatched[i].h.fn = fn})

\* The slots of the omission Server that hold a job.
Occupied == {i \in 1..omission.mpl : omission.jobs[i] # NoneJob}

\* C22: omission.Server keeps its slot accounting consistent after every offer
\* and job_done, for all three client types: 0 <= busy <= mpl, busy is the
\* number of non-None entries of jobs, a non-empty wait queue implies
\* busy = mpl, job_done(t, n) is dispatched only for an occupied slot n with
\* busy > 0, and the assert(False) of offer is never reached.
ServerSlotsConsistent ==
    loop = "omission" /\ omission # Unused =>
        /\ err # HandlerError
        /\ 0 <= omission.busy /\ omission.busy <= omission.mpl
        /\ omission.busy = Cardinality(Occupied)
        /\ Len(omission.deque) > 0 => omission.busy = omission.mpl
        /\ \A i \in 1..Len(q) : q[i].h.fn = "job_done" => q[i].payload.v + 1 \in Occupied

\* An OpenLoopClientWithTimeout has replaced a timed-out job from inside
\* job_done, with jobs waiting and every slot taken.
ReplacementOfferedInsideJobDone ==
    /\ loop = "omission"
    /\ pc = "running"
    /\ dispatched # <<>>
    /\ omission.client_type = "OpenLoopClientWithTimeout"
    /\ Last(dispatched).h.fn = "job_done"
    /\ omission.made > Dispatches("generate")
    /\ Len(omission.deque) > 0
    /\ omission.busy = omission.mpl

\* The think_done events pending in q.
PendingThinkDone == Cardinality({i \in 1..Len(q) : q[i].h.fn = "think_done"})

\* C28: for a ClosedLoopClient with concurrency mpl, once its generate event
\* has been dispatched, the jobs in server slots plus the jobs waiting in the
\* server queue plus the pending think_done events are mpl in every state;
\* each job completion produces exactly one think_done event and each
\* think_done offers exactly one new job.
ClosedLoopPopulationConserved ==
    /\ [](/\ loop = "omission" /\ omission # Unused
          /\ omission.client_type = "ClosedLoopClient"
          /\ Dispatches("generate") > 0 /\ pc # "error"
          => omission.busy + Len(omission.deque) + PendingThinkDone = omission.cmpl)
    /\ [][/\ loop = "omission" /\ omission # Unused
          /\ omission.client_type = "ClosedLoopClient"
          /\ Len(dispatched') = Len(dispatched) + 1
          => /\ Last(dispatched').h.fn = "job_done" =>
                   Cardinality({i \in 1..Len(res'.evs) : res'.evs[i].h.fn = "think_done"}) = 1
             /\ Last(dispatched').h.fn = "think_done" =>
                   /\ omission'.made = omission.made + 1
                   /\ omission'.busy + Len(omission'.deque)
                          = omission.busy + Len(omission.deque) + 1]_vars

\* A closed-loop client of concurrency 2 on a server with one slot: a job is in
\* service, a job waits, and a think_done has offered a job before.
ClosedLoopJobWaits ==
    /\ loop = "omission"
    /\ pc = "running"
    /\ omission # Unused
    /\ omission.client_type = "ClosedLoopClient"
    /\ omission.cmpl = 2
    /\ omission.mpl = 1
    /\ Dispatches("think_done") > 0
    /\ omission.busy = 1
    /\ Len(omission.deque) = 1

\* The step dispatches Client.timeout or Client.done for the attempt that is
\* the client's current_try.
CurrentAttemptDispatched(fn) ==
    /\ loop = "simple_collapse_sim"
    /\ Len(dispatched') = Len(dispatched) + 1
    /\ Last(dispatched').h.fn = fn
    /\ Last(dispatched').payload.v = collapse.client.current_try

\* C23: for each attempt of a simple_collapse_sim Client at most one of
\* stats.timeout() and stats.success() is recorded, for whichever of the
\* attempt's timeout and response is dispatched first while the attempt is
\* current_try; each client records at most one success and never a success
\* after it has run out of retries.
RaceRecordedOnce ==
    /\ [](loop = "simple_collapse_sim" /\ collapse # Unused =>
             /\ collapse.data.timeouts + collapse.data.successes = collapse.client.current_try
             /\ collapse.data.successes <= 1)
    /\ [][CurrentAttemptDispatched("timeout") =>
             /\ collapse'.data.timeouts = collapse.data.timeouts + 1
             /\ collapse'.data.successes = collapse.data.successes
             /\ collapse'.client.current_try = collapse.client.current_try + 1]_vars
    /\ [][CurrentAttemptDispatched("done") =>
             /\ collapse'.data.successes = collapse.data.successes + 1
             /\ collapse'.data.timeouts = collapse.data.timeouts
             /\ collapse'.client.current_try = collapse.client.current_try + 1]_vars
    /\ [][loop = "simple_collapse_sim" /\ collapse # Unused /\ collapse.client.retries_left <= 0 =>
             collapse'.data.successes = collapse.data.successes]_vars

\* The response of an attempt has been dispatched after the attempt's timeout
\* was recorded, and counted nothing.
ResponseAfterTimeout ==
    /\ loop = "simple_collapse_sim"
    /\ pc = "running"
    /\ dispatched # <<>>
    /\ Last(dispatched).h.fn = "done"
    /\ Last(dispatched).payload.v < collapse.client.current_try
    /\ collapse.data.timeouts = Last(dispatched).payload.v + 1
    /\ collapse.data.successes = 0

\* The Server.end events pending in q.
PendingServerEnd == {i \in 1..Len(q) : q[i].h.fn = "server_end"}

\* C29: simple_collapse_sim.Server.concurrency always equals the number of
\* pending Server.end events and is never negative; the request of an attempt
\* the client has already timed out counts until its end event is dispatched.
ConcurrencyCountsPendingEnds ==
    loop = "simple_collapse_sim" /\ collapse # Unused =>
        /\ collapse.server.concurrency >= 0
        /\ pc # "error" => collapse.server.concurrency = Cardinality(PendingServerEnd)

\* Two requests are in service, one of them for an attempt that has already
\* timed out.
TimedOutRequestStillServed ==
    /\ loop = "simple_collapse_sim"
    /\ pc = "running"
    /\ collapse # Unused
    /\ collapse.server.concurrency = 2
    /\ \E i \in PendingServerEnd : q[i].payload.v < collapse.client.current_try


\* The events pending in q whose callback is fn.
Pending(fn) == {i \in 1..Len(q) : q[i].h.fn = fn}

\* What the callback called last must have returned if it was the periodic
\* method fn of a Stats object with the period every: one event, for fn, every
\* later than the time it was called at.
ReturnedItsNextCall(fn, every) ==
    dispatched # <<>> /\ Last(dispatched).h.fn = fn =>
        res = ListResult(<<Ev(Last(dispatched).time + every, Last(dispatched).h, None)>>)

\* C24: the periodic Stats methods reschedule themselves exactly once each
\* time sim_loop calls them: print_stats called at t returns exactly one event,
\* for print_stats at t + 1.0, and appends exactly one snapshot to history (the
\* counters it then starts again from 0 at t); calc_stats called at t returns
\* exactly one event, for calc_stats at t + calc_every; and between the
\* iterations of sim_loop, and when it has returned, exactly one such event is
\* in q.
StatsRescheduleOnce ==
    /\ loop = "simple_collapse_sim" /\ collapse # Unused =>
          /\ ReturnedItsNextCall("print_stats", PrintEvery)
          /\ Len(collapse.history) = Dispatches("print_stats")
          /\ collapse.history # <<>> =>
                /\ collapse.history[1].start_t = 0
                /\ \A i \in 2..Len(collapse.history) :
                      collapse.history[i].start_t = collapse.history[i - 1].start_t + PrintEvery
                /\ collapse.data = StatData(collapse.data.start_t)
                      \/ Last(dispatched).h.fn # "print_stats"
          /\ pc \in {"running", "done"} => Cardinality(Pending("print_stats")) = 1
    /\ loop = "ski_sim" /\ ski # Unused =>
          /\ ReturnedItsNextCall("calc_stats", CalcEvery)
          /\ pc \in {"running", "done"} => Cardinality(Pending("calc_stats")) = 1

\* A run of simple_collapse_sim has reached max_t with print_stats called every
\* second, and one of its snapshots holds the second in which the client timed
\* out and retried.
SnapshotsEverySecond ==
    /\ loop = "simple_collapse_sim" /\ pc = "done" /\ collapse # Unused
    /\ Len(collapse.history) * PrintEvery >= max_t - PrintEvery
    /\ \E i \in 1..Len(collapse.history) :
          collapse.history[i].timeouts = 1 /\ collapse.history[i].retries = 1


\* The key of the sequence of keys s that recency has first: the one put or
\* found least recently.
LeastRecent(s) ==
    lru.recency[CHOOSE i \in 1..Len(lru.recency) :
                    /\ lru.recency[i] \in Range(s)
                    /\ \A j \in 1..(i - 1) : lru.recency[j] \notin Range(s)]

\* C25: an LRU of capacity >= 1 never holds more than capacity entries,
\* whatever the sequence of put, is_cached and flush; is_cached(k) returns True
\* exactly when k was in the cache before the call, and then k is the most
\* recently used entry and no entry is lost; and a put of a new key into a full
\* cache evicts exactly the key whose last put or successful is_cached is the
\* oldest.
LRUHoldsTheMostRecent ==
    loop = "cache_sim" =>
        /\ Len(lru.map) <= lru.capacity
        /\ Cardinality(Range(KeysOf(lru.map))) = Len(lru.map)
        /\ lru.called.op = "is_cached" =>
              /\ lru.called.ret = (lru.called.k \in Range(lru.called.before))
              /\ lru.called.ret =>
                    /\ Last(lru.map).k = lru.called.k
                    /\ Range(KeysOf(lru.map)) = Range(lru.called.before)
        /\ lru.called.op = "put" =>
              /\ lru.map # <<>> /\ Last(lru.map).k = lru.called.k
              /\ lru.called.k \notin Range(lru.called.before)
                 /\ Len(lru.called.before) = lru.capacity =>
                    Range(lru.called.before) \ Range(KeysOf(lru.map))
                        = {LeastRecent(lru.called.before)}

\* A put has inserted a new key into a full cache whose oldest entry was not
\* the smallest key any more: calls before it had changed the order the cache
\* was primed in.
PutEvictedAfterReordering ==
    /\ loop = "cache_sim" /\ lru.called.op = "put"
    /\ lru.capacity >= 2
    /\ Len(lru.called.before) = lru.capacity
    /\ lru.called.k \notin Range(lru.called.before)
    /\ lru.called.before[1] > lru.called.before[2]
    /\ lru.called.before[1] \notin Range(KeysOf(lru.map))

\* C26: is_cached(k) for a key k that is not in the cache returns False and
\* leaves the cached keys and their order as they were, also when the cache is
\* full.
MissIsPureQuery ==
    loop = "cache_sim" /\ lru.called.op = "is_cached"
    /\ lru.called.k \notin Range(lru.called.before) =>
        /\ lru.called.ret = FALSE
        /\ KeysOf(lru.map) = lru.called.before


\* C27: in the loops that stop at the horizon (nudge, omission, ski_sim,
\* simple_collapse_sim) every dispatch but the last of a run is of an event with
\* time < max_t, so at most one event with time >= max_t is ever dispatched and
\* it is the last one; and once the loop has returned nothing is dispatched any
\* more: the events still in q stay there.
OnlyLastDispatchAtHorizon ==
    /\ [](loop \in HorizonLoops =>
             \A i \in 1..(Len(dispatched) - 1) : dispatched[i].time < max_t)
    /\ [][(loop \in HorizonLoops /\ pc = "done") => (q' = q /\ dispatched' = dispatched)]_vars

\* A horizon loop has returned after dispatching an event at or after max_t,
\* which was not its first, and left events pending in q.
ReturnedWithEventsPending ==
    /\ loop \in HorizonLoops /\ pc = "done"
    /\ Len(dispatched) >= 2 /\ Last(dispatched).time >= max_t
    /\ q # <<>>


\* The requests call k has sent to the server: the server.handle events made
\* for it, dispatched or still in q.
Sent(k) ==
    Cardinality({i \in 1..Len(dispatched) :
                    dispatched[i].h.fn = "handle" /\ dispatched[i].payload.v = k})
    + Cardinality({i \in 1..Len(q) : q[i].h.fn = "handle" /\ q[i].payload.v = k})

\* The dispatches of done_success of call k.
SuccessDispatches(k) ==
    {i \in 1..Len(dispatched) : dispatched[i].h = Method("done_success", k)}

\* The requests sent to the server by all the calls.
AllSent ==
    Cardinality({i \in 1..Len(dispatched) : dispatched[i].h.fn = "handle"})
    + Cardinality({i \in 1..Len(q) : q[i].h.fn = "handle"})

\* C30: the counters of retry_sim's Stats are consistent in every state:
\* successes <= unique_calls <= total_calls; every Call records at most one
\* success and sends no request to the server after it; with NRetriesStrategy(N)
\* a Call sends at most N + 1 requests, so total_calls <= (N + 1) * unique_calls;
\* and as long as no exception has ended the run total_calls is the number of
\* requests sent.
RetryStatsConsistent ==
    loop = "retry_sim" =>
        /\ stats.successes <= stats.unique_calls
        /\ stats.unique_calls <= stats.total_calls
        /\ \A k \in 1..Len(calls) :
              /\ Cardinality(SuccessDispatches(k)) <= 1
              /\ \A i \in SuccessDispatches(k) :
                    /\ \A j \in (i + 1)..Len(dispatched) :
                          ~(dispatched[j].h.fn = "handle" /\ dispatched[j].payload.v = k)
                    /\ \A j \in 1..Len(q) : ~(q[j].h.fn = "handle" /\ q[j].payload.v = k)
              /\ config.strategy = "NRetries" => Sent(k) <= config.N + 1
        /\ config.strategy = "NRetries" =>
              stats.total_calls <= (config.N + 1) * stats.unique_calls
        /\ pc # "error" => stats.total_calls = AllSent

\* Under NRetriesStrategy(3) a Call has succeeded with its third request, the
\* two before it having failed, and the run has gone on to the next Call.
SucceededWithSecondRetry ==
    /\ loop = "retry_sim" /\ config.strategy = "NRetries" /\ config.N = ThreeRetries
    /\ Len(calls) >= 2
    /\ \E k \in 1..Len(calls) :
          /\ Sent(k) = ThreeRetries
          /\ SuccessDispatches(k) # {}
          /\ stats.successes < stats.unique_calls
          /\ stats.unique_calls < stats.total_calls

====
